---- MODULE Spec2Model ----
(***************************************************************************)
(* Verification model of the Stimulus/ERB static validator                 *)
(* (spec/javascript/stimulus_validation_spec.rb, kept as                   *)
(* src/unnamed/part_007): the ERB fragment merger, the fragment queries,   *)
(* the target validator, the action validator with its scope resolution    *)
(* and the line-range scope check of fragment-declared actions.            *)
(*                                                                         *)
(* Every operation is checked under its own specification; the variables   *)
(* of the other operations stay at their idle values there.                *)
(***************************************************************************)
EXTENDS Integers, Sequences, FiniteSets, TLC

(***************************************************************************)
(* Bounds of the model.                                                    *)
(***************************************************************************)
MaxBlocks == 4

(***************************************************************************)
(* Generic helpers.                                                        *)
(***************************************************************************)
RECURSIVE SeqsUpTo(_, _)
SeqsUpTo(S, n) ==
    IF n = 0 THEN {<<>>}
    ELSE LET shorter == SeqsUpTo(S, n - 1)
         IN  shorter \cup {Append(s, x) : s \in {t \in shorter : Len(t) = n - 1}, x \in S}

RECURSIVE CountIn(_, _)
CountIn(seq, x) ==
    IF seq = <<>> THEN 0
    ELSE (IF Head(seq) = x THEN 1 ELSE 0) + CountIn(Tail(seq), x)

(***************************************************************************)
(* Fragment code.  The code of a fragment is a sequence of lexical tokens: *)
(*   "x"        an expression without keywords or braces                   *)
(*   "do"       the keyword do (with or without block parameters)          *)
(*   "end"      the keyword end                                            *)
(*   "if"       the keyword if                                             *)
(*   "lbrace"   an opening brace                                           *)
(*   "rbrace"   a closing brace                                            *)
(*   "str_end"  a quoted string literal holding the word end               *)
(*   "nl"       the newline the merger puts between joined fragments       *)
(* The regular expressions of the merger are modelled by what they match   *)
(* on these tokens.                                                        *)
(***************************************************************************)
Codes ==
    { <<"x">>,                       \* @title
      <<"x", "do">>,                 \* form_with(model: @habit) do |f|
      <<"end">>,                     \* end
      <<"if">>,                      \* if f.object.persisted?
      <<"x", "lbrace", "rbrace">>,   \* link_to "x", path, data: { turbo: true }
      <<"x", "lbrace">>,             \* items.each { |item|
      <<"rbrace">>,                  \* }
      <<"end", "end">>,              \* end; end
      <<"x", "str_end">> }           \* t "the end"

\* type of the delimiter pair a fragment comes from: a fragment that starts
\* with an expression is an output fragment, a bare keyword an execution one
TypeOf(code) == IF code[1] = "x" THEN "output" ELSE "execution"

RawBlock(code, pos) ==
    [type |-> TypeOf(code), code |-> code, position |-> pos, merged |-> FALSE]

RawBlocks(codes) == [p \in 1..Len(codes) |-> RawBlock(codes[p], p)]

\* /\b(do\s*(\|[^|]*\|)?)/ or /\{\s*(\|[^|]*\|)?/ matches somewhere in code
opens_block(code) == \E p \in 1..Len(code) : code[p] \in {"do", "lbrace"}

\* code.gsub(/'[^']*'|"[^"]*"/, '')
code_without_strings(code) == SelectSeq(code, LAMBDA t : t # "str_end")

has_end_keyword(code) == CountIn(code_without_strings(code), "end") > 0

has_unmatched_do(code) == opens_block(code) /\ ~has_end_keyword(code)

\* nesting_level += scan(/\bdo\b/).length ; nesting_level -= scan(/\bend\b/).length
AdjustNesting(level, next_code) ==
    level + CountIn(code_without_strings(next_code), "do")
          - CountIn(code_without_strings(next_code), "end")

\* merged_code += "\n" + next_code
JoinCode(merged_code_, next_code) == merged_code_ \o <<"nl">> \o next_code

\* skip_indices.add(j)
MarkConsumed_Forgets(skip, idx) == skip

MarkConsumed(skip, idx) == skip \cup {idx}

VARIABLES
    blocks,         \* the raw fragments handed to merge_block_pairs
    merged,         \* the output list
    skip_indices,   \* indices consumed by a merge
    i,              \* index of the outer each_with_index
    j,              \* index of the forward scan
    nesting_level,  \* the nesting counter of the forward scan
    merged_code,    \* code joined so far
    mpc             \* position inside merge_block_pairs

mergeVars == <<blocks, merged, skip_indices, i, j, nesting_level, merged_code, mpc>>

VARIABLES
    erb_blocks,     \* @erb_blocks of the ErbAstParser a query runs on
    query,          \* "targets", "actions", "values" or "controller"
    results,        \* matches collected so far
    controller_exists_in_file,
    qpc             \* position inside the query

queryVars == <<erb_blocks, query, results, controller_exists_in_file, qpc>>

VARIABLES
    doc,                  \* the parsed markup of the view file
    file_blocks,          \* the ERB fragments of the view file
    controller_data,      \* the metadata of the controller
    ce,                   \* index of the controller element at hand
    ti,                   \* index of the target at hand
    target_errors,
    target_scope_errors,
    tpc                   \* position inside the target validator

targetVars == <<doc, file_blocks, controller_data, ce, ti,
                target_errors, target_scope_errors, tpc>>

VARIABLES
    lines,          \* content.split("\n") of the view file
    action_line,    \* action_info[:line_number]
    in_scope,       \* the value check_erb_action_scope returns
    spc             \* position inside check_erb_action_scope

scopeVars == <<lines, action_line, in_scope, spc>>

VARIABLES
    views,            \* the view files: their markup and their render calls
    relative_path,    \* the view file under validation
    action_info,      \* the action of all_actions at hand
    controller_scope, \* the scope resolved for the action
    scope_errors,
    action_errors,
    apc               \* position inside the action validator

actionVars == <<views, relative_path, action_info, controller_scope,
                scope_errors, action_errors, apc>>

\* state of the further validators
VARIABLES
    element_attrs,  \* the attribute names of the controller element
    content_attrs,  \* the attribute names in the text of the view file
    value_blocks,   \* the ERB fragments of the view file
    value_data,     \* the metadata of the controller
    vi,             \* index of the value at hand
    value_errors,   \* the findings of the value validator
    vpc             \* position inside the value validator

valueVars == <<element_attrs, content_attrs, value_blocks, value_data, vi, value_errors, vpc>>

VARIABLES
    outlet_doc,     \* the parsed markup of the view file
    outlet_attrs,   \* the outlet attributes of the controller element
    outlet_data,    \* the outlets of the controller
    oi,             \* index of the outlet at hand
    outlet_errors,  \* the findings of the outlet validator
    opc             \* position inside the outlet validator

outletVars == <<outlet_doc, outlet_attrs, outlet_data, oi, outlet_errors, opc>>

VARIABLES
    selector_doc,           \* the parsed markup of the view file
    query_selectors,        \* data[:querySelectors] of the controller
    qsi,                    \* index of the selector at hand
    selector_errors,        \* the MissingSelector findings
    selector_scope_errors,  \* the SelectorOutOfScope findings
    qspc                    \* position inside the selector validator

selectorVars == <<selector_doc, query_selectors, qsi, selector_errors, selector_scope_errors, qspc>>

VARIABLES
    source_file,       \* the method bodies of the channel or job file
    source_parses,     \* whether Parser::CurrentRuby parses the file
    frontend_files,    \* the channel names that have a *_controller.ts file
    frontend_methods,  \* the methods of the frontend controllers
    broadcasts,        \* the broadcast calls found in the file
    bi,                \* index of the broadcast at hand
    broadcast_errors,  \* the findings of the broadcast validator
    bpc                \* position inside the broadcast validator

broadcastVars == <<source_file, source_parses, frontend_files, frontend_methods, broadcasts, bi, broadcast_errors, bpc>>

VARIABLES
    controller_files,  \* the *_controller.ts files and whether the extractor succeeds on each
    references_map,    \* whether the example evaluates controller_data
    data,              \* the keys of the hash under construction
    cfi,               \* index of the controller file at hand
    example_findings,  \* the controllers named by the findings of the example
    cdpc               \* position inside the example

buildVars == <<controller_files, references_map, data, cfi, example_findings, cdpc>>

VARIABLES
    fragment_code,    \* the code of the fragment
    processed_once,   \* preprocess_erb_code(code)
    processed_twice,  \* preprocess_erb_code of the former
    pppc              \* position of the preprocessing

preprocessVars == <<fragment_code, processed_once, processed_twice, pppc>>

VARIABLES
    template_content,  \* the text of the template
    extracted,         \* the list blocks of extract_erb_blocks
    xpc                \* position inside extract_erb_blocks

extractVars == <<template_content, extracted, xpc>>

VARIABLES
    completed_dates,    \* the attribute completed_dates, an array of date strings
    total_completions,  \* the attribute total_completions
    streak_count,       \* the attribute streak_count
    longest_streak,     \* the attribute longest_streak
    today,              \* Date.today, as the number of the day
    request_date,       \* the date of the latest check-in request, 0 when there was none since midnight
    response_status,    \* the status of the latest response
    hpc                 \* whether the habit exists

habitVars == <<completed_dates, total_completions, streak_count, longest_streak, today, request_date, response_status, hpc>>

VARIABLES
    action_string,      \* the value of a data-action pair, a string of characters
    wanted_controller,  \* the controller the query is for, Nil when it is for any
    action_matches,     \* the matches find_actions_in_hash returned
    parse_pc            \* whether the pair was examined

parseVars == <<action_string, wanted_controller, action_matches, parse_pc>>

VARIABLES
    ast,           \* the syntax tree of one fragment
    walk_kind,     \* what the query looks for: targets, actions or values
    walk_matches,  \* the matches the walk returned
    walk_pc        \* whether the tree was walked

walkVars == <<ast, walk_kind, walk_matches, walk_pc>>

VARIABLES
    template_items,  \* the view file: its fragments and the newlines between them, in order
    line_blocks,     \* @erb_blocks, the fragments after merge_block_pairs
    line_results,    \* the results of find_stimulus_actions
    lpc              \* position: loaded, extracted or queried

lineVars == <<template_items, line_blocks, line_results, lpc>>

VARIABLES
    errors,       \* this.errors, the newest record first
    listeners,    \* this.listeners, in insertion order
    isNotifying,  \* this.isNotifying
    microtasks,   \* the number of queued notification callbacks
    visit,        \* the index of the listener the running callback calls next
    in_listener,  \* whether the listener at visit has taken its snapshot and has not returned
    last_info,    \* the info handleError was last called with
    unnotified,   \* the subscribed listeners not called since the latest change of the list
    epc           \* whether the handler exists

handlerVars == <<errors, listeners, isNotifying, microtasks, visit, in_listener, last_info, unnotified, epc>>

laterVars == <<valueVars, outletVars, selectorVars, broadcastVars, buildVars, preprocessVars, extractVars, habitVars, parseVars, walkVars, lineVars, handlerVars>>

\* all variables
vars == <<mergeVars, queryVars, targetVars, scopeVars, actionVars, laterVars>>

MergeIdle ==
    /\ blocks = <<>> /\ merged = <<>> /\ skip_indices = {}
    /\ i = 0 /\ j = 0 /\ nesting_level = 0 /\ merged_code = <<>>
    /\ mpc = "idle"

QueryIdle ==
    /\ erb_blocks = <<>> /\ query = "none" /\ results = <<>>
    /\ controller_exists_in_file = FALSE /\ qpc = "idle"

TargetIdle ==
    /\ doc = <<>> /\ file_blocks = <<>> /\ controller_data = <<>>
    /\ ce = 0 /\ ti = 0
    /\ target_errors = <<>> /\ target_scope_errors = <<>> /\ tpc = "idle"

ScopeIdle ==
    /\ lines = <<>> /\ action_line = 0 /\ in_scope = FALSE /\ spc = "idle"

ActionIdle ==
    /\ views = <<>> /\ relative_path = "" /\ action_info = <<>>
    /\ controller_scope = FALSE
    /\ scope_errors = <<>> /\ action_errors = <<>> /\ apc = "idle"

\* the further validators at rest
ValueIdle ==
    /\ element_attrs = {} /\ content_attrs = {} /\ value_blocks = <<>>
    /\ value_data = <<>> /\ vi = 0 /\ value_errors = <<>> /\ vpc = "idle"

OutletIdle ==
    /\ outlet_doc = <<>> /\ outlet_attrs = <<>> /\ outlet_data = <<>>
    /\ oi = 0 /\ outlet_errors = <<>> /\ opc = "idle"

SelectorIdle ==
    /\ selector_doc = <<>> /\ query_selectors = <<>> /\ qsi = 0
    /\ selector_errors = <<>> /\ selector_scope_errors = <<>> /\ qspc = "idle"

BroadcastIdle ==
    /\ source_file = <<>> /\ source_parses = FALSE /\ frontend_files = {}
    /\ frontend_methods = <<>> /\ broadcasts = <<>> /\ bi = 0
    /\ broadcast_errors = <<>> /\ bpc = "idle"

BuildIdle ==
    /\ controller_files = <<>> /\ references_map = FALSE /\ data = {}
    /\ cfi = 0 /\ example_findings = {} /\ cdpc = "idle"

PreprocessIdle ==
    /\ fragment_code = <<>> /\ processed_once = <<>> /\ processed_twice = <<>>
    /\ pppc = "idle"

ExtractIdle ==
    /\ template_content = <<>> /\ extracted = <<>> /\ xpc = "idle"

HabitIdle ==
    /\ completed_dates = <<>> /\ total_completions = 0 /\ streak_count = 0
    /\ longest_streak = 0 /\ today = 0 /\ request_date = 0 /\ response_status = 0
    /\ hpc = "idle"

ParseIdle ==
    /\ action_string = <<>> /\ wanted_controller = <<>> /\ action_matches = <<>> /\ parse_pc = "idle"

WalkIdle ==
    /\ ast = <<>> /\ walk_kind = "" /\ walk_matches = <<>> /\ walk_pc = "idle"

LineIdle ==
    /\ template_items = <<>> /\ line_blocks = <<>> /\ line_results = <<>> /\ lpc = "idle"

HandlerIdle ==
    /\ errors = <<>> /\ listeners = <<>> /\ isNotifying = FALSE /\ microtasks = 0
    /\ visit = 0 /\ in_listener = FALSE /\ last_info = <<>> /\ unnotified = {} /\ epc = "idle"

LaterIdle ==
    /\ ValueIdle
    /\ OutletIdle
    /\ SelectorIdle
    /\ BroadcastIdle
    /\ BuildIdle
    /\ PreprocessIdle
    /\ ExtractIdle
    /\ HabitIdle
    /\ ParseIdle
    /\ WalkIdle
    /\ LineIdle
    /\ HandlerIdle

EarlierIdle ==
    /\ MergeIdle /\ QueryIdle /\ TargetIdle /\ ScopeIdle /\ ActionIdle

\* what the value validator leaves alone
ValueOthers ==
    UNCHANGED <<mergeVars, queryVars, targetVars, scopeVars, actionVars, outletVars, selectorVars, broadcastVars, buildVars, preprocessVars, extractVars, habitVars, parseVars, walkVars, lineVars, handlerVars>>

ValueOthersIdle ==
    /\ EarlierIdle
    /\ OutletIdle
    /\ SelectorIdle
    /\ BroadcastIdle
    /\ BuildIdle
    /\ PreprocessIdle
    /\ ExtractIdle
    /\ HabitIdle
    /\ ParseIdle
    /\ WalkIdle
    /\ LineIdle
    /\ HandlerIdle

\* what the outlet validator leaves alone
OutletOthers ==
    UNCHANGED <<mergeVars, queryVars, targetVars, scopeVars, actionVars, valueVars, selectorVars, broadcastVars, buildVars, preprocessVars, extractVars, habitVars, parseVars, walkVars, lineVars, handlerVars>>

OutletOthersIdle ==
    /\ EarlierIdle
    /\ ValueIdle
    /\ SelectorIdle
    /\ BroadcastIdle
    /\ BuildIdle
    /\ PreprocessIdle
    /\ ExtractIdle
    /\ HabitIdle
    /\ ParseIdle
    /\ WalkIdle
    /\ LineIdle
    /\ HandlerIdle

\* what the selector validator leaves alone
SelectorOthers ==
    UNCHANGED <<mergeVars, queryVars, targetVars, scopeVars, actionVars, valueVars, outletVars, broadcastVars, buildVars, preprocessVars, extractVars, habitVars, parseVars, walkVars, lineVars, handlerVars>>

SelectorOthersIdle ==
    /\ EarlierIdle
    /\ ValueIdle
    /\ OutletIdle
    /\ BroadcastIdle
    /\ BuildIdle
    /\ PreprocessIdle
    /\ ExtractIdle
    /\ HabitIdle
    /\ ParseIdle
    /\ WalkIdle
    /\ LineIdle
    /\ HandlerIdle

\* what the broadcast validator leaves alone
BroadcastOthers ==
    UNCHANGED <<mergeVars, queryVars, targetVars, scopeVars, actionVars, valueVars, outletVars, selectorVars, buildVars, preprocessVars, extractVars, habitVars, parseVars, walkVars, lineVars, handlerVars>>

BroadcastOthersIdle ==
    /\ EarlierIdle
    /\ ValueIdle
    /\ OutletIdle
    /\ SelectorIdle
    /\ BuildIdle
    /\ PreprocessIdle
    /\ ExtractIdle
    /\ HabitIdle
    /\ ParseIdle
    /\ WalkIdle
    /\ LineIdle
    /\ HandlerIdle

\* what the construction of controller_data leaves alone
BuildOthers ==
    UNCHANGED <<mergeVars, queryVars, targetVars, scopeVars, actionVars, valueVars, outletVars, selectorVars, broadcastVars, preprocessVars, extractVars, habitVars, parseVars, walkVars, lineVars, handlerVars>>

BuildOthersIdle ==
    /\ EarlierIdle
    /\ ValueIdle
    /\ OutletIdle
    /\ SelectorIdle
    /\ BroadcastIdle
    /\ PreprocessIdle
    /\ ExtractIdle
    /\ HabitIdle
    /\ ParseIdle
    /\ WalkIdle
    /\ LineIdle
    /\ HandlerIdle

\* what the fragment preprocessor leaves alone
PreprocessOthers ==
    UNCHANGED <<mergeVars, queryVars, targetVars, scopeVars, actionVars, valueVars, outletVars, selectorVars, broadcastVars, buildVars, extractVars, habitVars, parseVars, walkVars, lineVars, handlerVars>>

PreprocessOthersIdle ==
    /\ EarlierIdle
    /\ ValueIdle
    /\ OutletIdle
    /\ SelectorIdle
    /\ BroadcastIdle
    /\ BuildIdle
    /\ ExtractIdle
    /\ HabitIdle
    /\ ParseIdle
    /\ WalkIdle
    /\ LineIdle
    /\ HandlerIdle

\* what the fragment extractor leaves alone
ExtractOthers ==
    UNCHANGED <<mergeVars, queryVars, targetVars, scopeVars, actionVars, valueVars, outletVars, selectorVars, broadcastVars, buildVars, preprocessVars, habitVars, parseVars, walkVars, lineVars, handlerVars>>

ExtractOthersIdle ==
    /\ EarlierIdle
    /\ ValueIdle
    /\ OutletIdle
    /\ SelectorIdle
    /\ BroadcastIdle
    /\ BuildIdle
    /\ PreprocessIdle
    /\ HabitIdle
    /\ ParseIdle
    /\ WalkIdle
    /\ LineIdle
    /\ HandlerIdle

\* what the habit model leaves alone
HabitOthers ==
    UNCHANGED <<mergeVars, queryVars, targetVars, scopeVars, actionVars, valueVars, outletVars, selectorVars, broadcastVars, buildVars, preprocessVars, extractVars, parseVars, walkVars, lineVars, handlerVars>>

HabitOthersIdle ==
    /\ EarlierIdle
    /\ ValueIdle
    /\ OutletIdle
    /\ SelectorIdle
    /\ BroadcastIdle
    /\ BuildIdle
    /\ PreprocessIdle
    /\ ExtractIdle
    /\ ParseIdle
    /\ WalkIdle
    /\ LineIdle
    /\ HandlerIdle

\* what the action-string parser leaves alone
ParseOthers ==
    UNCHANGED <<mergeVars, queryVars, targetVars, scopeVars, actionVars, valueVars, outletVars, selectorVars, broadcastVars, buildVars, preprocessVars, extractVars, habitVars, walkVars, lineVars, handlerVars>>

ParseOthersIdle ==
    /\ EarlierIdle
    /\ ValueIdle
    /\ OutletIdle
    /\ SelectorIdle
    /\ BroadcastIdle
    /\ BuildIdle
    /\ PreprocessIdle
    /\ ExtractIdle
    /\ HabitIdle
    /\ WalkIdle
    /\ LineIdle
    /\ HandlerIdle

\* what the syntax-tree walk leaves alone
WalkOthers ==
    UNCHANGED <<mergeVars, queryVars, targetVars, scopeVars, actionVars, valueVars, outletVars, selectorVars, broadcastVars, buildVars, preprocessVars, extractVars, habitVars, parseVars, lineVars, handlerVars>>

WalkOthersIdle ==
    /\ EarlierIdle
    /\ ValueIdle
    /\ OutletIdle
    /\ SelectorIdle
    /\ BroadcastIdle
    /\ BuildIdle
    /\ PreprocessIdle
    /\ ExtractIdle
    /\ HabitIdle
    /\ ParseIdle
    /\ LineIdle
    /\ HandlerIdle

\* what the line attribution leaves alone
LineOthers ==
    UNCHANGED <<mergeVars, queryVars, targetVars, scopeVars, actionVars, valueVars, outletVars, selectorVars, broadcastVars, buildVars, preprocessVars, extractVars, habitVars, parseVars, walkVars, handlerVars>>

LineOthersIdle ==
    /\ EarlierIdle
    /\ ValueIdle
    /\ OutletIdle
    /\ SelectorIdle
    /\ BroadcastIdle
    /\ BuildIdle
    /\ PreprocessIdle
    /\ ExtractIdle
    /\ HabitIdle
    /\ ParseIdle
    /\ WalkIdle
    /\ HandlerIdle

\* what the error handler leaves alone
HandlerOthers ==
    UNCHANGED <<mergeVars, queryVars, targetVars, scopeVars, actionVars, valueVars, outletVars, selectorVars, broadcastVars, buildVars, preprocessVars, extractVars, habitVars, parseVars, walkVars, lineVars>>

HandlerOthersIdle ==
    /\ EarlierIdle
    /\ ValueIdle
    /\ OutletIdle
    /\ SelectorIdle
    /\ BroadcastIdle
    /\ BuildIdle
    /\ PreprocessIdle
    /\ ExtractIdle
    /\ HabitIdle
    /\ ParseIdle
    /\ WalkIdle
    /\ LineIdle

\* the fragment merger
InitMerge ==
    /\ LaterIdle
    /\ blocks \in {RawBlocks(cs) : cs \in SeqsUpTo(Codes, MaxBlocks)}
    /\ merged = <<>>
    /\ skip_indices = {}
    /\ i = 1
    /\ j = 0
    /\ nesting_level = 0
    /\ merged_code = <<>>
    /\ mpc = "each"
    /\ QueryIdle
    /\ TargetIdle
    /\ ScopeIdle
    /\ ActionIdle

\* next if skip_indices.include?(i)
NextSkipped ==
    /\ mpc = "each" /\ i <= Len(blocks)
    /\ i \in skip_indices
    /\ i' = i + 1
    /\ UNCHANGED <<blocks, merged, skip_indices, j, nesting_level, merged_code, mpc, queryVars, targetVars, scopeVars, actionVars, laterVars>>

\* else branch: merged << block
KeepBlock ==
    /\ mpc = "each" /\ i <= Len(blocks)
    /\ i \notin skip_indices
    /\ ~has_unmatched_do(blocks[i].code)
    /\ merged' = Append(merged, blocks[i])
    /\ i' = i + 1
    /\ UNCHANGED <<blocks, skip_indices, j, nesting_level, merged_code, mpc, queryVars, targetVars, scopeVars, actionVars, laterVars>>

\* if has_unmatched_do: merged_code = code.dup; j = i + 1; nesting_level = 1
OpenMerge ==
    /\ mpc = "each" /\ i <= Len(blocks)
    /\ i \notin skip_indices
    /\ has_unmatched_do(blocks[i].code)
    /\ merged_code' = blocks[i].code
    /\ j' = i + 1
    /\ nesting_level' = 1
    /\ mpc' = "scan"
    /\ UNCHANGED <<blocks, merged, skip_indices, i, queryVars, targetVars, scopeVars, actionVars, laterVars>>

\* body of: while j < blocks.length && nesting_level > 0
ScanBlock ==
    /\ mpc = "scan"
    /\ j <= Len(blocks) /\ nesting_level > 0
    /\ nesting_level' = AdjustNesting(nesting_level, blocks[j].code)
    /\ merged_code' = JoinCode(merged_code, blocks[j].code)
    /\ skip_indices' = MarkConsumed(skip_indices, j)
    /\ j' = j + 1
    /\ UNCHANGED <<blocks, merged, i, mpc, queryVars, targetVars, scopeVars, actionVars, laterVars>>

\* the while condition is false: the forward scan stops
ScanStop ==
    /\ mpc = "scan"
    /\ ~(j <= Len(blocks) /\ nesting_level > 0)
    /\ mpc' = "emit"
    /\ UNCHANGED <<blocks, merged, skip_indices, i, j, nesting_level, merged_code, queryVars, targetVars, scopeVars, actionVars, laterVars>>

\* merged << { type:, code: merged_code, position:, merged: true }
EmitMerged ==
    /\ mpc = "emit"
    /\ merged' = Append(merged, [type     |-> blocks[i].type,
                                 code     |-> merged_code,
                                 position |-> blocks[i].position,
                                 merged   |-> TRUE])
    /\ i' = i + 1
    /\ mpc' = "each"
    /\ UNCHANGED <<blocks, skip_indices, j, nesting_level, merged_code, queryVars, targetVars, scopeVars, actionVars, laterVars>>

\* the each_with_index is exhausted: merge_block_pairs returns merged
ReturnMerged ==
    /\ mpc = "each" /\ i > Len(blocks)
    /\ mpc' = "done"
    /\ UNCHANGED <<blocks, merged, skip_indices, i, j, nesting_level, merged_code, queryVars, targetVars, scopeVars, actionVars, laterVars>>

NextMerge ==
    \/ NextSkipped
    \/ KeepBlock
    \/ OpenMerge
    \/ ScanBlock
    \/ ScanStop
    \/ EmitMerged
    \/ ReturnMerged

SpecMerge == InitMerge /\ [][NextMerge]_vars

(***************************************************************************)
(* Properties of the fragment merger.                                      *)
(***************************************************************************)
\* newline-joined code of the raw fragments a..b
RECURSIVE JoinedCode(_, _, _)
JoinedCode(raw, a, b) ==
    IF a >= b THEN raw[a].code
    ELSE JoinedCode(raw, a, b - 1) \o <<"nl">> \o raw[b].code

RECURSIVE SortedSeqOf(_)
SortedSeqOf(S) ==
    IF S = {} THEN <<>>
    ELSE LET m == CHOOSE x \in S : \A y \in S : x <= y
         IN  <<m>> \o SortedSeqOf(S \ {m})

\* out cuts raw into consecutive runs: run k starts at the k-th start index,
\* out[k] carries the position of the run's first fragment and the joined
\* code of the run, and a fragment emitted without the merged flag is the
\* raw fragment itself
IsPartitionOf(raw, out) ==
    \E starts \in SUBSET (1..Len(raw)) :
        /\ Cardinality(starts) = Len(out)
        /\ (Len(raw) > 0 => 1 \in starts)
        /\ LET st == SortedSeqOf(starts)
               last(k) == IF k = Len(st) THEN Len(raw) ELSE st[k + 1] - 1
           IN  \A k \in 1..Len(out) :
                   /\ out[k].position = raw[st[k]].position
                   /\ out[k].code = JoinedCode(raw, st[k], last(k))
                   /\ out[k].type = raw[st[k]].type
                   /\ (last(k) > st[k] => out[k].merged)
                   /\ (~out[k].merged => out[k] = raw[st[k]])

\* the outer loop reaches fragment p and takes it for a block opener
VisitedAsOpener(p) ==
    /\ has_unmatched_do(blocks[p].code)
    /\ \A q \in 1..(p - 1) : ~has_unmatched_do(blocks[q].code)

\* the nesting counter after the forward scan from opener p has read fragment q
RECURSIVE CounterAfter(_, _)
CounterAfter(p, q) ==
    IF q <= p THEN 1
    ELSE CounterAfter(p, q - 1)
           + CountIn(code_without_strings(blocks[q].code), "do")
           - CountIn(code_without_strings(blocks[q].code), "end")

EmittedAlone(q) == \E k \in 1..Len(merged) : merged[k] = blocks[q]

\* C2: an opener whose nesting counter never returns to 0 before the end of
\* the file is emitted as its original unmerged fragment, and every later
\* fragment is emitted on its own.
C2_MergeAbandonedAtEof ==
    mpc = "done" =>
        \A p \in 1..Len(blocks) :
            (VisitedAsOpener(p) /\ \A q \in (p + 1)..Len(blocks) : CounterAfter(p, q) > 0)
                => \A q \in p..Len(blocks) : EmittedAlone(q)

\* The matching closer of the construct opened in fragment p, by a stack of
\* open constructs over the tokens of the fragments p, p+1, ...: the index of
\* the fragment whose token closes the first opener, 0 when there is none or
\* the closers do not fit the openers.
RECURSIVE MatchFrom(_, _, _)
MatchFrom(q, t, stack) ==
    IF q > Len(blocks) THEN 0
    ELSE IF t > Len(blocks[q].code)
         THEN (IF stack = <<>> THEN 0 ELSE MatchFrom(q + 1, 1, stack))
    ELSE LET tok == blocks[q].code[t]
             top == stack[Len(stack)]
             pop == SubSeq(stack, 1, Len(stack) - 1)
         IN  CASE tok \in {"do", "if", "lbrace"} -> MatchFrom(q, t + 1, Append(stack, tok))
               [] tok = "end" ->
                    IF stack = <<>> \/ top = "lbrace" THEN 0
                    ELSE IF pop = <<>> THEN q ELSE MatchFrom(q, t + 1, pop)
               [] tok = "rbrace" ->
                    IF stack = <<>> \/ top # "lbrace" THEN 0
                    ELSE IF pop = <<>> THEN q ELSE MatchFrom(q, t + 1, pop)
               [] OTHER -> MatchFrom(q, t + 1, stack)

MatchingCloser(p) == MatchFrom(p, 1, <<>>)

IsPlain(code) == \A t \in 1..Len(code) : code[t] \in {"x", "str_end"}

\* fragment p opens a block (do or brace, not a bare if) that a later
\* fragment closes, and no fragment before p opens or closes anything
OpensBalancedBlock(p) ==
    /\ \A q \in 1..(p - 1) : IsPlain(blocks[q].code)
    /\ \E t \in 1..Len(blocks[p].code) : blocks[p].code[t] \in {"do", "lbrace"}
    /\ \A t \in 1..Len(blocks[p].code) : blocks[p].code[t] # "if"
    /\ MatchingCloser(p) > p

\* C3: the merger emits exactly one merged fragment for an opener and its
\* matching closer, whose code is the newline-joined code of the opener, the
\* fragments between and the closer; it does not stop at an inner closer.
C3_MergeBalance ==
    mpc = "done" =>
        \A p \in 1..Len(blocks) :
            OpensBalancedBlock(p) =>
                /\ \E k \in 1..Len(merged) :
                       /\ merged[k].merged
                       /\ merged[k].position = blocks[p].position
                       /\ merged[k].code = JoinedCode(blocks, p, MatchingCloser(p))
                /\ Cardinality({k \in 1..Len(merged) :
                                   /\ merged[k].position >= p
                                   /\ merged[k].position <= MatchingCloser(p)}) = 1

\* C4: when the forward scan has stopped and a merged fragment is about to
\* be emitted, the nesting counter is exactly 0.
C4_CounterZeroAtEmit == mpc = "emit" => nesting_level = 0

\* C5: the output of the merger partitions its input into consecutive runs
\* in source order; no consumed fragment is emitted a second time.
C5_OutputPartitionsInput == mpc = "done" => IsPartitionOf(blocks, merged)

C5_Witness ==
    /\ mpc = "done"
    /\ Len(blocks) = 4
    /\ Len(merged) = 3
    /\ merged[2].merged
    /\ merged[2].code = <<"x", "do", "nl", "end">>
    /\ ~merged[1].merged /\ ~merged[3].merged

(***************************************************************************)
(* The fragment queries: find_stimulus_targets, find_stimulus_actions,     *)
(* find_stimulus_values and the controller-presence check of the action    *)
(* validator.  A fragment is described by what the query sees of it:       *)
(*   wanted  the keyword filter of the query lets the fragment through     *)
(*   parses  Parser::CurrentRuby.parse accepts the preprocessed code       *)
(*   hits    the number of matches the walk over its syntax tree yields    *)
(*           (for the controller-presence check: hits > 0 means the tree   *)
(*           holds the controller declaration)                             *)
(***************************************************************************)
MaxErbBlocks == 3
MaxHits == 2

ErbBlock ==
    { [wanted |-> w, parses |-> TRUE, hits |-> h] : w \in BOOLEAN, h \in 0..MaxHits }
        \cup { [wanted |-> w, parses |-> FALSE, hits |-> 0] : w \in BOOLEAN }

Queries == {"targets", "actions", "values", "controller"}

\* Parser::CurrentRuby.parse raises Parser::SyntaxError; only the
\* controller-presence check wraps it in begin/rescue
ParseErrorOutcome_NoRescue(kind) == "raised"

ParseErrorOutcome(kind) == IF kind = "controller" THEN "rescued" ELSE "raised"

\* matches.each { |match| results << { block:, match: } }
RECURSIVE MatchesOf(_, _)
MatchesOf(blk, n) ==
    IF n = 0 THEN <<>>
    ELSE Append(MatchesOf(blk, n - 1), [block |-> blk, match |-> n])

\* The loop over @erb_blocks from block b on, acc the results so far:
\*   next unless should_parse_for_...?(block[:code], ...)
\*   ast = Parser::CurrentRuby.parse(preprocess_erb_code(block[:code]))
\*   the matches of the walk over ast are appended to the results
\* The controller-presence check breaks at the first fragment that holds
\* the controller declaration.
RECURSIVE ScanErbBlocks(_, _, _, _)
ScanErbBlocks(blks, kind, b, acc) ==
    IF b > Len(blks) THEN [raised |-> FALSE, results |-> acc]
    ELSE IF ~blks[b].wanted THEN ScanErbBlocks(blks, kind, b + 1, acc)
    ELSE IF ~blks[b].parses
         THEN (IF ParseErrorOutcome(kind) = "raised"
               THEN [raised |-> TRUE, results |-> <<>>]
               ELSE ScanErbBlocks(blks, kind, b + 1, acc))
    ELSE IF kind = "controller" /\ blks[b].hits > 0
         THEN [raised |-> FALSE, results |-> <<[block |-> b, match |-> 1]>>]
    ELSE ScanErbBlocks(blks, kind, b + 1, acc \o MatchesOf(b, blks[b].hits))

find_stimulus_targets(blks) == ScanErbBlocks(blks, "targets", 1, <<>>)

find_stimulus_actions(blks) == ScanErbBlocks(blks, "actions", 1, <<>>)

find_stimulus_values(blks) == ScanErbBlocks(blks, "values", 1, <<>>)

erb_declares_controller(blks) == ScanErbBlocks(blks, "controller", 1, <<>>)

InitQuery ==
    /\ LaterIdle
    /\ ActionIdle
    /\ MergeIdle
    /\ TargetIdle
    /\ ScopeIdle
    /\ erb_blocks \in SeqsUpTo(ErbBlock, MaxErbBlocks)
    /\ query \in Queries
    /\ results = <<>>
    /\ controller_exists_in_file = FALSE
    /\ qpc = "call"

\* the query returns its results, or the parse error leaves it
QueryOutcome(out) ==
    /\ qpc' = IF out.raised THEN "raised" ELSE "done"
    /\ results' = out.results
    /\ UNCHANGED <<erb_blocks, query, controller_exists_in_file, mergeVars, targetVars, scopeVars, actionVars, laterVars>>

FindStimulusTargets ==
    /\ qpc = "call" /\ query = "targets"
    /\ QueryOutcome(find_stimulus_targets(erb_blocks))

FindStimulusActions ==
    /\ qpc = "call" /\ query = "actions"
    /\ QueryOutcome(find_stimulus_actions(erb_blocks))

FindStimulusValues ==
    /\ qpc = "call" /\ query = "values"
    /\ QueryOutcome(find_stimulus_values(erb_blocks))

\* unless controller_exists_in_file: the loop over the fragments of the file
ControllerExistsInErb ==
    /\ qpc = "call" /\ query = "controller"
    /\ LET out == erb_declares_controller(erb_blocks)
       IN  /\ qpc' = IF out.raised THEN "raised" ELSE "done"
           /\ controller_exists_in_file' = (out.results # <<>>)
    /\ UNCHANGED <<erb_blocks, query, results, mergeVars, targetVars, scopeVars, actionVars, laterVars>>

NextQuery ==
    \/ FindStimulusTargets
    \/ FindStimulusActions
    \/ FindStimulusValues
    \/ ControllerExistsInErb

SpecQuery == InitQuery /\ [][NextQuery]_vars

(***************************************************************************)
(* Properties of the fragment queries.                                     *)
(***************************************************************************)
ParsedBlocks == {b \in 1..Len(erb_blocks) : erb_blocks[b].wanted /\ erb_blocks[b].parses}

FailedBlocks == {b \in 1..Len(erb_blocks) : erb_blocks[b].wanted /\ ~erb_blocks[b].parses}

\* the matches of all fragments that parse, in fragment order
RECURSIVE AllMatchesUpTo(_)
AllMatchesUpTo(b) ==
    IF b = 0 THEN <<>>
    ELSE AllMatchesUpTo(b - 1)
           \o (IF b \in ParsedBlocks
               THEN [n \in 1..erb_blocks[b].hits |-> [block |-> b, match |-> n]]
               ELSE <<>>)

NoAttr == <<"nil">>

\* String#include?
StrInclude(str, sub) ==
    \E k \in 0..(Len(str) - Len(sub)) : SubSeq(str, k + 1, k + Len(sub)) = sub

\* Array#include?
ArrInclude(arr, x) == \E k \in 1..Len(arr) : arr[k] = x

\* String#split(/\s+/): a leading separator yields an empty first field,
\* trailing empty fields are dropped
RECURSIVE SplitFrom(_, _, _, _, _)
SplitFrom(str, k, cur, acc, in_sep) ==
    IF k > Len(str) THEN (IF cur # <<>> THEN Append(acc, cur) ELSE acc)
    ELSE IF str[k] = " "
         THEN (IF in_sep THEN SplitFrom(str, k + 1, cur, acc, TRUE)
               ELSE SplitFrom(str, k + 1, <<>>, Append(acc, cur), TRUE))
    ELSE SplitFrom(str, k + 1, Append(cur, str[k]), acc, FALSE)

RECURSIVE DropTrailingEmpty(_)
DropTrailingEmpty(arr) ==
    IF arr # <<>> /\ arr[Len(arr)] = <<>>
    THEN DropTrailingEmpty(SubSeq(arr, 1, Len(arr) - 1))
    ELSE arr

SplitWs(str) == DropTrailingEmpty(SplitFrom(str, 1, <<>>, <<>>, FALSE))

(***************************************************************************)
(* The markup document.  Elements are numbered 1..n in document order,     *)
(* parent[e] is the parent of e and 0 the document fragment itself.        *)
(***************************************************************************)
NumElems == 3

\* element.ancestors: the parent first, the document fragment last
RECURSIVE ancestors(_, _)
ancestors(parent, e) ==
    IF e = 0 THEN <<>> ELSE <<parent[e]>> \o ancestors(parent, parent[e])

\* the elements element.css(...) searches: the descendants of the element
css_scope_ChildrenOnly(parent, elem) ==
    {e \in 1..Len(parent) : parent[e] = elem}

css_scope(parent, elem) ==
    {e \in 1..Len(parent) : ArrInclude(ancestors(parent, e), elem)}

\* numbering in document order: the parent of e is e - 1 or one of its
\* ancestors
InDocumentOrder(parent) ==
    \A e \in 1..Len(parent) :
        parent[e] \in {0} \cup (IF e > 1 THEN {e - 1} \cup {a \in 1..(e - 2) :
                                   ArrInclude(ancestors(parent, e - 1), a)} ELSE {})

Trees(n) == {parent \in [1..n -> 0..(n - 1)] :
                /\ \A e \in 1..n : parent[e] < e
                /\ InDocumentOrder(parent)}

(***************************************************************************)
(* The target validator (Core Validation: targets).                        *)
(***************************************************************************)
CtlC == <<"c">>
TgtP == <<"p">>
TgtPQ == <<"p", "q">>

\* the fragments of the view file, by what they hold:
\*   "other"   no data/target/controller keyword
\*   "bad"     a data: { ... target ... } hash that does not parse
\*   "decl_p"  data: { "c-target" => "p" }, parses
FileBlockKinds == {"other", "bad", "decl_p"}

\* the fragment lists of the view files under validation
FileBlockLists ==
    { <<>>, <<"bad">>, <<"decl_p">>, <<"other", "decl_p">>,
      <<"decl_p", "bad">>, <<"bad", "decl_p">> }

\* what find_stimulus_targets(controller_name, target) sees of a fragment
TargetBlockView(kind, target) ==
    CASE kind = "other"  -> [wanted |-> FALSE, parses |-> TRUE, hits |-> 0]
      [] kind = "bad"    -> [wanted |-> TRUE, parses |-> FALSE, hits |-> 0]
      [] kind = "decl_p" -> [wanted |-> TRUE, parses |-> TRUE,
                             hits |-> IF target = TgtP THEN 1 ELSE 0]

erb_targets_FirstBlockOnly(fblocks, target) ==
    find_stimulus_targets([b \in 1..(IF fblocks = <<>> THEN 0 ELSE 1) |->
                              TargetBlockView(fblocks[b], target)])

\* erb_parser.find_stimulus_targets(controller_name, target)
erb_targets(fblocks, target) ==
    find_stimulus_targets([b \in 1..Len(fblocks) |-> TargetBlockView(fblocks[b], target)])

\* doc.css('[data-controller]')
controller_elements(d) ==
    SelectSeq([e \in 1..Len(d.parent) |-> e], LAMBDA e : d.data_controller[e] # NoAttr)

\* next if optional_targets.include?(target) ; next if targets_with_skip.include?(target)
target_skipped_OptionalOnly(cdata, target) ==
    ArrInclude(cdata.optional_targets, target)

target_skipped(cdata, target) ==
    \/ ArrInclude(cdata.optional_targets, target)
    \/ ArrInclude(cdata.targets_with_skip, target)

\* controller_element["data-#{controller_name}-target"]&.include?(target)
target_on_element(d, elem, target) ==
    /\ d.target_attr[elem] # NoAttr
    /\ StrInclude(d.target_attr[elem], target)

\* controller_element.css("[data-#{controller_name}-target*='#{target}']").any?
target_in_descendants(d, elem, target) ==
    \E e \in css_scope(d.parent, elem) : target_on_element(d, e, target)

\* is_outside_scope: no ancestor of element is the controller element
is_outside_scope(d, element, elem) == ~ArrInclude(ancestors(d.parent, element), elem)

\* doc.css("[data-#{controller_name}-target*='#{target}']").each ...
target_exists_elsewhere(d, elem, target) ==
    \E e \in 1..Len(d.parent) :
        /\ target_on_element(d, e, target)
        /\ is_outside_scope(d, e, elem)

\* the body of controller_data[controller_name][:targets].each for one
\* controller element and one target
ClassifyTarget(d, fblocks, cdata, elem, target) ==
    IF target_skipped(cdata, target) THEN "skipped"
    ELSE IF target_on_element(d, elem, target) THEN "in_scope"
    ELSE IF target_in_descendants(d, elem, target) THEN "in_scope"
    ELSE IF erb_targets(fblocks, target).raised THEN "raised"
    ELSE IF erb_targets(fblocks, target).results # <<>> THEN "in_scope"
    ELSE IF target_exists_elsewhere(d, elem, target) THEN "out_of_scope"
    ELSE "missing"

ControllerData ==
    { [targets |-> <<TgtP>>, optional_targets |-> <<>>, targets_with_skip |-> <<>>] }
    \cup
    { [targets |-> <<TgtP, TgtPQ>>, optional_targets |-> o[1], targets_with_skip |-> o[2]] :
        o \in {<< <<>>, <<>> >>, << <<TgtP>>, <<>> >>, << <<>>, <<TgtPQ>> >>} }

InitTarget ==
    /\ LaterIdle
    /\ ActionIdle
    /\ MergeIdle
    /\ QueryIdle
    /\ ScopeIdle
    /\ doc \in { [parent |-> p, data_controller |-> c, target_attr |-> a] :
                    p \in Trees(NumElems),
                    c \in [1..NumElems -> {NoAttr, CtlC}],
                    a \in [1..NumElems -> {NoAttr, TgtP, TgtPQ}] }
    /\ controller_elements(doc) # <<>>
    /\ file_blocks \in FileBlockLists
    /\ controller_data \in ControllerData
    /\ ce = 1
    /\ ti = 1
    /\ target_errors = <<>>
    /\ target_scope_errors = <<>>
    /\ tpc = "each"

CurElem == controller_elements(doc)[ce]

CurTarget == controller_data.targets[ti]

CurOutcome == ClassifyTarget(doc, file_blocks, controller_data, CurElem, CurTarget)

TargetPending == tpc = "each" /\ ce <= Len(controller_elements(doc))

\* on to the next target, or to the first target of the next controller element
NextTarget ==
    /\ IF ti < Len(controller_data.targets)
       THEN ti' = ti + 1 /\ ce' = ce
       ELSE ti' = 1 /\ ce' = ce + 1
    /\ UNCHANGED <<doc, file_blocks, controller_data, tpc, mergeVars, queryVars, scopeVars, actionVars, laterVars>>

TargetSkipped ==
    /\ TargetPending
    /\ CurOutcome = "skipped"
    /\ UNCHANGED <<target_errors, target_scope_errors>>
    /\ NextTarget

TargetInScope ==
    /\ TargetPending
    /\ CurOutcome = "in_scope"
    /\ UNCHANGED <<target_errors, target_scope_errors>>
    /\ NextTarget

\* the parse error of find_stimulus_targets leaves the validator
TargetQueryRaises ==
    /\ TargetPending
    /\ CurOutcome = "raised"
    /\ tpc' = "raised"
    /\ UNCHANGED <<doc, file_blocks, controller_data, ce, ti,
                   target_errors, target_scope_errors, mergeVars, queryVars, scopeVars, actionVars, laterVars>>

TargetOutOfScope ==
    /\ TargetPending
    /\ CurOutcome = "out_of_scope"
    /\ target_scope_errors' = Append(target_scope_errors,
           [controller |-> CtlC, target |-> CurTarget, error_type |-> "out_of_scope"])
    /\ UNCHANGED target_errors
    /\ NextTarget

TargetMissing ==
    /\ TargetPending
    /\ CurOutcome = "missing"
    /\ target_errors' = Append(target_errors, [controller |-> CtlC, target |-> CurTarget])
    /\ UNCHANGED target_scope_errors
    /\ NextTarget

TargetsDone ==
    /\ tpc = "each" /\ ce > Len(controller_elements(doc))
    /\ tpc' = "done"
    /\ UNCHANGED <<doc, file_blocks, controller_data, ce, ti,
                   target_errors, target_scope_errors, mergeVars, queryVars, scopeVars, actionVars, laterVars>>

NextTargetValidator ==
    \/ TargetSkipped
    \/ TargetInScope
    \/ TargetQueryRaises
    \/ TargetOutOfScope
    \/ TargetMissing
    \/ TargetsDone

SpecTarget == InitTarget /\ [][NextTargetValidator]_vars

(***************************************************************************)
(* Properties of the target validator.                                     *)
(***************************************************************************)
\* element e is the element top or lies below it
RECURSIVE LiesWithin(_, _)
LiesWithin(e, top) == e # 0 /\ (e = top \/ LiesWithin(doc.parent[e], top))

\* element e carries the target attribute naming the target
NamesTarget(e, target) ==
    /\ doc.target_attr[e] # NoAttr
    /\ StrInclude(doc.target_attr[e], target)

FragmentDeclares(target) ==
    target = TgtP /\ \E b \in 1..Len(file_blocks) : file_blocks[b] = "decl_p"

FragmentFailsToParse == \E b \in 1..Len(file_blocks) : file_blocks[b] = "bad"

RequiredTarget(target) ==
    /\ ~ArrInclude(controller_data.optional_targets, target)
    /\ ~ArrInclude(controller_data.targets_with_skip, target)

TargetIsInScope == \E e \in 1..NumElems : NamesTarget(e, CurTarget) /\ LiesWithin(e, CurElem)

TargetIsOnlyOutside ==
    /\ ~TargetIsInScope
    /\ \E e \in 1..NumElems : NamesTarget(e, CurTarget)
    /\ ~FragmentDeclares(CurTarget)

TargetIsNowhere ==
    /\ \A e \in 1..NumElems : ~NamesTarget(e, CurTarget)
    /\ ~FragmentDeclares(CurTarget)

NoNewTargetFinding ==
    /\ target_errors' = target_errors
    /\ target_scope_errors' = target_scope_errors

OneOutOfScopeFinding ==
    /\ target_errors' = target_errors
    /\ target_scope_errors' = Append(target_scope_errors,
           [controller |-> CtlC, target |-> CurTarget, error_type |-> "out_of_scope"])

OneMissingFinding ==
    /\ target_scope_errors' = target_scope_errors
    /\ target_errors' = Append(target_errors, [controller |-> CtlC, target |-> CurTarget])

C25_FragmentMatchCountsAsInScope ==
    [][ (TargetPending /\ RequiredTarget(CurTarget) /\ ~TargetIsInScope
            /\ FragmentDeclares(CurTarget)) =>
            /\ NoNewTargetFinding
            /\ (~FragmentFailsToParse => tpc' = "each") ]_vars

\* the target is on a sibling of the only controller element and the second
\* fragment of the file declares it: the validator ends without a finding
C25_Witness ==
    /\ tpc = "done"
    /\ doc.parent = <<0, 0, 0>>
    /\ doc.data_controller = <<CtlC, NoAttr, NoAttr>>
    /\ doc.target_attr = <<NoAttr, TgtP, NoAttr>>
    /\ file_blocks = <<"other", "decl_p">>
    /\ controller_data.targets = <<TgtP>>
    /\ target_errors = <<>>
    /\ target_scope_errors = <<>>

\* the targets named by the findings of the target validator
TargetsInFindings ==
    {target_errors[k].target : k \in 1..Len(target_errors)}
        \cup {target_scope_errors[k].target : k \in 1..Len(target_scope_errors)}

ListedOptionalOrSkip(target) ==
    \/ \E k \in 1..Len(controller_data.optional_targets) :
           controller_data.optional_targets[k] = target
    \/ \E k \in 1..Len(controller_data.targets_with_skip) :
           controller_data.targets_with_skip[k] = target

\* C19: a target listed in optionalTargets or targetsWithSkip is never
\* named by a MissingTarget or TargetOutOfScope finding, whatever the markup
\* of the view file holds.
C19_OptionalTargetNeverReported ==
    \A target \in TargetsInFindings : ~ListedOptionalOrSkip(target)

\* the skip-marked target pq is on no element and in no fragment, the
\* validator went through every controller element, and the only findings
\* are those of the required target p
C19_Witness ==
    /\ tpc = "done"
    /\ controller_data.targets = <<TgtP, TgtPQ>>
    /\ controller_data.targets_with_skip = <<TgtPQ>>
    /\ \A e \in 1..NumElems : doc.target_attr[e] = NoAttr
    /\ file_blocks = <<>>
    /\ target_errors # <<>>
    /\ TargetsInFindings = {TgtP}

(***************************************************************************)
(* The line-range scope check of fragment-declared actions                 *)
(* (check_erb_action_scope, find_scope_end) for the controller c.          *)
(* A line of the file is one of:                                           *)
(*   "div_ctl"    <div data-controller="c">                                *)
(*   "div_cx"     <div data-controller="cx">                               *)
(*   "div_open"   <div class="box">                                        *)
(*   "div_close"  </div>                                                   *)
(*   "span_id"    <span id="hint">text</span>                              *)
(*   "div_id"     <div id="panel"            (the tag goes on on the next  *)
(*   "ctl_attr"        data-controller="c">   line)                        *)
(*   "text"       <%= button_tag "Go", data: { action: "click->c#m" } %>   *)
(* The string tests and regular expressions of the code are modelled by    *)
(* what they yield on these lines.                                         *)
(***************************************************************************)
MaxLines == 4

LineKinds == {"div_ctl", "div_cx", "div_open", "div_close", "span_id", "div_id", "ctl_attr", "text"}

\* line.include?('data-controller=') && line.include?(controller_name) &&
\* the name stands between quotes or spaces
declares_controller(line) == line \in {"div_ctl", "ctl_attr"}

\* line.match(/<(\w+)(?:\s[^>]*)?(?:\s+data-controller|\s+id=)/): match[1]
opening_tag_match(line) ==
    CASE line \in {"div_ctl", "div_cx", "div_id"} -> "div"
      [] line = "span_id" -> "span"
      [] OTHER -> "none"

\* line.scan(/<#{tag_name}(?:\s|>)/).length
open_count(line, tag) ==
    IF \/ tag = "div" /\ line \in {"div_ctl", "div_cx", "div_open", "div_id"}
       \/ tag = "span" /\ line = "span_id"
    THEN 1 ELSE 0

\* line.scan(/<\/#{tag_name}>/).length
close_count(line, tag) ==
    IF \/ tag = "div" /\ line = "div_close"
       \/ tag = "span" /\ line = "span_id"
    THEN 1 ELSE 0

\* [start_index - 1, start_index].each: the first of the two lines whose
\* text matches the opening-tag pattern, 0 when neither does
opening_tag_line(ls, start) ==
    IF start > 1 /\ opening_tag_match(ls[start - 1]) # "none" THEN start - 1
    ELSE IF opening_tag_match(ls[start]) # "none" THEN start
    ELSE 0

\* (opening_tag_line...lines.length).each: depth goes up by the opening tags
\* of the line, then down by one for each closing tag; the scan returns the
\* line on which depth reaches 0 after a tag was found
RECURSIVE scan_scope_end(_, _, _, _, _)
scan_scope_end(ls, tag, l, depth, tag_found) ==
    IF l > Len(ls) THEN Len(ls)
    ELSE LET opened == depth + open_count(ls[l], tag)
             found  == tag_found \/ open_count(ls[l], tag) > 0
             closes == close_count(ls[l], tag)
         IN  IF found /\ opened >= 1 /\ opened - closes <= 0
             THEN l
             ELSE scan_scope_end(ls, tag, l + 1, opened - closes, found)

find_scope_end(ls, start) ==
    IF opening_tag_line(ls, start) = 0 THEN Len(ls)
    ELSE scan_scope_end(ls, opening_tag_match(ls[opening_tag_line(ls, start)]),
                        opening_tag_line(ls, start), 0, FALSE)

\* controller_scopes.any? { |scope| action_line >= scope[:start] && action_line <= scope[:end] }
check_erb_action_scope(ls, line_number) ==
    \E l \in 1..Len(ls) :
        /\ declares_controller(ls[l])
        /\ line_number >= l
        /\ line_number <= find_scope_end(ls, l)

\* a tag that goes on on the next line is followed by its data-controller
\* attribute, and the attribute line follows such a tag
WellFormedLines(ls) ==
    \A l \in 1..Len(ls) :
        /\ (ls[l] = "div_id" => l < Len(ls) /\ ls[l + 1] = "ctl_attr")
        /\ (ls[l] = "ctl_attr" => l > 1 /\ ls[l - 1] = "div_id")

InitScope ==
    /\ LaterIdle
    /\ ActionIdle
    /\ MergeIdle
    /\ QueryIdle
    /\ TargetIdle
    /\ lines \in {ls \in SeqsUpTo(LineKinds, MaxLines) : WellFormedLines(ls)}
    /\ action_line \in {l \in 1..Len(lines) : lines[l] = "text"}
    /\ in_scope = FALSE
    /\ spc = "call"

ErbActionInScope ==
    /\ spc = "call"
    /\ check_erb_action_scope(lines, action_line)
    /\ in_scope' = TRUE
    /\ spc' = "done"
    /\ UNCHANGED <<lines, action_line, mergeVars, queryVars, targetVars, actionVars, laterVars>>

ErbActionOutOfScope ==
    /\ spc = "call"
    /\ ~check_erb_action_scope(lines, action_line)
    /\ in_scope' = FALSE
    /\ spc' = "done"
    /\ UNCHANGED <<lines, action_line, mergeVars, queryVars, targetVars, actionVars, laterVars>>

NextScope ==
    \/ ErbActionInScope
    \/ ErbActionOutOfScope

SpecScope == InitScope /\ [][NextScope]_vars

(***************************************************************************)
(* Properties of the line-range scope check.                               *)
(***************************************************************************)
\* the line that opens the tag carrying the data-controller attribute of
\* line l
CarrierLine(l) == IF lines[l] = "ctl_attr" THEN l - 1 ELSE l

\* the line on which the count of open div tags, taken from line from on,
\* is back at zero; the last line when it never is
RECURSIVE BalancedAt(_, _)
BalancedAt(l, open) ==
    IF l > Len(lines) THEN Len(lines)
    ELSE LET now == open + open_count(lines[l], "div") - close_count(lines[l], "div")
         IN  IF now <= 0 THEN l ELSE BalancedAt(l + 1, now)

InDeclaredRange(line_number) ==
    \E l \in 1..Len(lines) :
        /\ lines[l] \in {"div_ctl", "ctl_attr"}
        /\ line_number >= CarrierLine(l)
        /\ line_number <= BalancedAt(CarrierLine(l), 0)

\* C9: check_erb_action_scope returns true if and only if the line of the
\* action lies between the line that opens a tag carrying the controller
\* declaration and the line on which the count of that tag is back at zero.
C9_ErbScopeIsTagRange == spc = "done" => (in_scope <=> InDeclaredRange(action_line))

(***************************************************************************)
(* The action validator (Core Validation: actions) with the scope          *)
(* resolution across partials, for an action "click->c#m".                 *)
(*                                                                         *)
(* A view file has a root element, which may carry a data-controller       *)
(* attribute, and render calls.  The action stands on the root element, on *)
(* an element inside it or on an element after it, or it is declared by a  *)
(* fragment inside or after the root element.                              *)
(***************************************************************************)
MaxStack == 4

\* app/views/items/index.html.erb, app/views/items/_row.html.erb,
\* app/views/items/_cell.html.erb, in the order of view_files
view_files == <<"index", "_row", "_cell">>

Partials == {"_row", "_cell"}

\* relative_path.include?('_')
has_underscore(path) == path \in {"_row", "_cell"}

\* values of the data-controller attribute of a root element
CtlCX == <<"c", "x">>
CtlXC == <<"x", " ", "c">>
RootControllers == {NoAttr, CtlCX, CtlXC}

Views == [ {view_files[k] : k \in 1..Len(view_files)} ->
             [root_controller : RootControllers, renders : SUBSET Partials] ]

\* where the action stands in the file under validation
Placements ==
    { [source |-> "html", element |-> 1, parent |-> <<0, 1>>],    \* on the root element
      [source |-> "html", element |-> 2, parent |-> <<0, 1>>],    \* inside the root element
      [source |-> "html", element |-> 2, parent |-> <<0, 0>>],    \* after the root element
      [source |-> "erb_ast", element |-> 0, parent |-> <<0, 1>>], \* fragment inside
      [source |-> "erb_ast", element |-> 0, parent |-> <<0, 0>>] }\* fragment after

\* Nokogiri::HTML::DocumentFragment.parse(content) of the file under validation
DocOf(view, place) ==
    [parent |-> place.parent, data_controller |-> <<view.root_controller, NoAttr>>]

\* content.split("\n") of the file under validation
RootLine(view) ==
    CASE view.root_controller = NoAttr -> "div_open"
      [] view.root_controller = CtlCX  -> "div_cx"
      [] view.root_controller = CtlXC  -> "div_ctl"

LinesOf(view, place) ==
    IF place.parent[2] = 1
    THEN <<RootLine(view), "text", "div_close">>
    ELSE <<RootLine(view), "div_close", "text">>

LineOfAction(place) == IF place.parent[2] = 1 THEN 2 ELSE 3

\* partial_parent_map[partial_path] || []: the files that render the
\* partial, in the order of view_files
partial_parent_map(vs, partial_path) ==
    SelectSeq(view_files, LAMBDA f : partial_path \in vs[f].renders)

RECURSIVE Uniq(_)
Uniq(arr) ==
    IF arr = <<>> THEN <<>>
    ELSE LET init == Uniq(SubSeq(arr, 1, Len(arr) - 1))
         IN  IF ArrInclude(init, arr[Len(arr)]) THEN init ELSE Append(init, arr[Len(arr)])

\* parent_doc.css('[data-controller]').each { |element|
\*   element['data-controller'].split(/\s+/).each { |c| controllers << c.strip } }
declared_controllers(view) ==
    IF view.root_controller = NoAttr THEN <<>> ELSE SplitWs(view.root_controller)

\* get_controllers_from_parents(partial_path), depth frames deep; the
\* recursion has no visited set, so it ends in SystemStackError when the
\* stack is used up
RECURSIVE get_controllers_from_parents(_, _, _)
RECURSIVE each_parent_file(_, _, _, _, _)
get_controllers_from_parents(vs, partial_path, depth) ==
    IF depth > MaxStack THEN [overflow |-> TRUE, controllers |-> <<>>]
    ELSE LET out == each_parent_file(vs, partial_parent_map(vs, partial_path), 1, <<>>, depth)
         IN  [overflow |-> out.overflow, controllers |-> Uniq(out.controllers)]

each_parent_file(vs, parent_files, k, controllers, depth) ==
    IF k > Len(parent_files) THEN [overflow |-> FALSE, controllers |-> controllers]
    ELSE LET parent_file == parent_files[k]
             own   == controllers \o declared_controllers(vs[parent_file])
             above == IF has_underscore(parent_file)
                      THEN get_controllers_from_parents(vs, parent_file, depth + 1)
                      ELSE [overflow |-> FALSE, controllers |-> <<>>]
         IN  IF above.overflow THEN above
             ELSE each_parent_file(vs, parent_files, k + 1, own \o above.controllers, depth)

\* action_element['data-controller']&.include?(controller_name), then the
\* same test on action_element.ancestors: the element found, 0 for false
html_action_scope(d, element, name) ==
    LET chain == <<element>> \o ancestors(d.parent, element)
        hits  == {k \in 1..Len(chain) :
                     /\ chain[k] # 0
                     /\ d.data_controller[chain[k]] # NoAttr
                     /\ StrInclude(d.data_controller[chain[k]], name)}
    IN  IF hits = {} THEN 0 ELSE chain[CHOOSE k \in hits : \A h \in hits : k <= h]

\* the scope resolved inside the file under validation
local_scope(d, ls, info) ==
    IF info.source = "erb_ast"
    THEN check_erb_action_scope(ls, info.line_number)
    ELSE html_action_scope(d, info.element, info.controller) # 0

\* doc.css('[data-controller]').each: element['data-controller'].split(/\s+/).include?(name)
html_declares_controller(d, name) ==
    \E e \in 1..Len(d.parent) :
        /\ d.data_controller[e] # NoAttr
        /\ ArrInclude(SplitWs(d.data_controller[e]), name)

\* controller_exists_in_file: the markup first, then the fragments
controller_in_file(d, blks, name) ==
    \/ html_declares_controller(d, name)
    \/ erb_declares_controller(blks).results # <<>>

\* the method check runs only for an action whose scope was resolved
\* (unless controller_scope ... next)
method_checked_NoNext(scope) == TRUE

method_checked(scope) == scope

\* controller_data.key?(controller_name) and the method is not in its list
method_missing(cdata, info) ==
    /\ cdata # <<>>
    /\ ~ArrInclude(cdata.methods, info.method)

InitAction ==
    /\ LaterIdle
    /\ MergeIdle
    /\ views \in Views
    /\ relative_path \in {view_files[k] : k \in 1..Len(view_files)}
    /\ \E place \in Placements :
          /\ doc = DocOf(views[relative_path], place)
          /\ lines = LinesOf(views[relative_path], place)
          /\ action_info \in { [element |-> place.element, controller |-> CtlC,
                                method |-> m, source |-> place.source,
                                line_number |-> IF place.source = "erb_ast"
                                                THEN LineOfAction(place) ELSE 0] :
                                m \in {"m", "zz"} }
    /\ action_line = action_info.line_number
    /\ in_scope = FALSE /\ spc = "idle"
    /\ erb_blocks \in { <<>>,
                        <<[wanted |-> TRUE, parses |-> FALSE, hits |-> 0]>>,
                        <<[wanted |-> TRUE, parses |-> TRUE, hits |-> 1]>> }
    /\ query = "controller" /\ results = <<>> /\ qpc = "idle"
    /\ controller_exists_in_file = FALSE
    /\ controller_data \in { <<>>, [methods |-> <<"m">>] }
    /\ file_blocks = <<>> /\ ce = 0 /\ ti = 0
    /\ target_errors = <<>> /\ target_scope_errors = <<>> /\ tpc = "idle"
    /\ controller_scope = FALSE
    /\ scope_errors = <<>>
    /\ action_errors = <<>>
    /\ apc = "each"

ActionUnchanged ==
    UNCHANGED <<views, relative_path, action_info, mergeVars, targetVars, scopeVars,
                erb_blocks, query, results, qpc, laterVars>>

LocalScope == local_scope(doc, lines, action_info)

NeedsParents == ~LocalScope /\ has_underscore(relative_path)

ParentControllers == get_controllers_from_parents(views, relative_path, 1)

\* controller_scope after the check of the file and of its parents
ResolvedScope ==
    \/ LocalScope
    \/ /\ NeedsParents
       /\ ArrInclude(ParentControllers.controllers, action_info.controller)

\* the walk over the parent templates uses up the stack
ActionWalkOverflows ==
    /\ apc = "each"
    /\ NeedsParents /\ ParentControllers.overflow
    /\ apc' = "raised"
    /\ UNCHANGED <<controller_scope, scope_errors, action_errors, controller_exists_in_file>>
    /\ ActionUnchanged

\* unless controller_scope: scope_errors << {...}; next
ActionScopeError ==
    /\ apc = "each"
    /\ ~(NeedsParents /\ ParentControllers.overflow)
    /\ ~ResolvedScope
    /\ controller_scope' = FALSE
    /\ controller_exists_in_file' = controller_in_file(doc, erb_blocks, action_info.controller)
    /\ scope_errors' = Append(scope_errors,
           [action |-> action_info, controller |-> action_info.controller,
            source |-> action_info.source,
            error_type |-> IF controller_exists_in_file' THEN "out_of_scope"
                           ELSE "missing_controller"])
    /\ action_errors' = IF method_checked(FALSE) /\ method_missing(controller_data, action_info)
                        THEN Append(action_errors, [action |-> action_info,
                                                    method |-> action_info.method])
                        ELSE action_errors
    /\ apc' = "done"
    /\ ActionUnchanged

\* the scope is resolved and the method is not in the controller's list
ActionMethodError ==
    /\ apc = "each"
    /\ ~(NeedsParents /\ ParentControllers.overflow)
    /\ ResolvedScope
    /\ method_checked(TRUE) /\ method_missing(controller_data, action_info)
    /\ controller_scope' = TRUE
    /\ action_errors' = Append(action_errors, [action |-> action_info,
                                               method |-> action_info.method])
    /\ apc' = "done"
    /\ UNCHANGED <<scope_errors, controller_exists_in_file>>
    /\ ActionUnchanged

ActionPasses ==
    /\ apc = "each"
    /\ ~(NeedsParents /\ ParentControllers.overflow)
    /\ ResolvedScope
    /\ ~(method_checked(TRUE) /\ method_missing(controller_data, action_info))
    /\ controller_scope' = TRUE
    /\ apc' = "done"
    /\ UNCHANGED <<scope_errors, action_errors, controller_exists_in_file>>
    /\ ActionUnchanged

NextAction ==
    \/ ActionWalkOverflows
    \/ ActionScopeError
    \/ ActionMethodError
    \/ ActionPasses

SpecAction == InitAction /\ [][NextAction]_vars

(***************************************************************************)
(* Properties of the action validator.                                     *)
(***************************************************************************)
\* the attribute value lists the name as one of its whitespace-separated names
ListsName(attr, name) ==
    /\ attr # NoAttr
    /\ \E a \in 1..Len(attr), b \in 1..Len(attr) :
          /\ a <= b
          /\ SubSeq(attr, a, b) = name
          /\ (a = 1 \/ attr[a - 1] = " ")
          /\ (b = Len(attr) \/ attr[b + 1] = " ")

MethodIsListed ==
    /\ controller_data # <<>>
    /\ \E k \in 1..Len(controller_data.methods) :
          controller_data.methods[k] = action_info.method

MethodIsAbsent == controller_data # <<>> /\ ~MethodIsListed

\* C7: the action validator emits at most one finding for an action.  When
\* no controller scope is resolved it emits exactly one scope finding
\* (out_of_scope or missing_controller) and no method finding; a method
\* finding is emitted only when the scope was resolved and the method is
\* absent from the methods list of the controller.
C7_AtMostOneActionFinding ==
    /\ Len(scope_errors) + Len(action_errors) <= 1
    /\ (apc = "done" /\ ~controller_scope) =>
          /\ Len(scope_errors) = 1
          /\ scope_errors[1].error_type \in {"out_of_scope", "missing_controller"}
          /\ action_errors = <<>>
    /\ scope_errors # <<>> => (apc = "done" /\ ~controller_scope)
    /\ action_errors # <<>> =>
          /\ apc = "done"
          /\ controller_scope
          /\ MethodIsAbsent

\* an action with an unresolved scope whose method is absent from the list
C7_Witness ==
    /\ apc = "done"
    /\ ~controller_scope
    /\ MethodIsAbsent
    /\ Len(scope_errors) = 1
    /\ action_errors = <<>>

\* the action-bearing element or one of its ancestors lists the controller
ElementChainLists(name) ==
    \E e \in 1..Len(doc.parent) :
        /\ LiesWithin(action_info.element, e)
        /\ ListsName(doc.data_controller[e], name)

\* C8: an attribute-declared action in a non-partial file is in scope if and
\* only if the action-bearing element or one of its ancestors lists the
\* controller as one of its whitespace-separated names; a name that merely
\* contains the controller name does not put the action in scope.
C8_HtmlScopeIsListedName ==
    (apc = "done" /\ action_info.source = "html" /\ relative_path = "index") =>
        (controller_scope <=> ElementChainLists(action_info.controller))

\* the templates that render the partial, directly or through a chain of
\* at most n partials that render one another
RECURSIVE RenderersWithin(_, _)
RenderersWithin(partial, n) ==
    IF n = 0 THEN {}
    ELSE LET direct == {f \in DOMAIN views : partial \in views[f].renders}
         IN  direct \cup UNION {RenderersWithin(f, n - 1) : f \in direct}

DeclaredInRenderer ==
    \E f \in RenderersWithin(relative_path, Len(view_files)) :
        ListsName(views[f].root_controller, action_info.controller)

\* C10: an action in a partial whose controller is not resolved inside the
\* partial is treated as in scope if and only if the controller is declared
\* in some template that renders the partial, directly or through a chain
\* of partials.
C10_PartialScopeFromRenderers ==
    (apc # "each" /\ relative_path \in Partials /\ ~LocalScope) =>
        ((apc = "done" /\ controller_scope) <=> DeclaredInRenderer)

\* C11: the walk over the parent templates returns for every map of
\* partials to the templates that render them, also when a partial renders
\* itself or two partials render each other.
C11_ParentWalkTerminates ==
    \A p \in Partials : ~get_controllers_from_parents(views, p, 1).overflow

(***************************************************************************)
(* The value validator (Core Validation: values) for one element that      *)
(* carries the controller c.  An attribute name is the sequence of its     *)
(* pieces: "data", "-", the letters of a short name, "value".              *)
(***************************************************************************)
ValN == <<"n">>
ValNM == <<"n", "M">>
ValTarget == <<"target">>

\* [a-z], [A-Z] and String#downcase on the letters of the value names
is_lower(ch) == ch \in {"c", "n", "m"}

is_upper(ch) == ch \in {"M"}

downcase(ch) == IF ch = "M" THEN "m" ELSE ch

\* value_name.gsub(/([a-z])([A-Z])/, '\1-\2').downcase
RECURSIVE kebab_from(_, _)
kebab_from(name, k) ==
    IF k > Len(name) THEN <<>>
    ELSE IF k < Len(name) /\ is_lower(name[k]) /\ is_upper(name[k + 1])
         THEN <<name[k], "-">> \o kebab_from(name, k + 1)
         ELSE <<downcase(name[k])>> \o kebab_from(name, k + 1)

kebab_DowncaseOnly(value_name) == [k \in 1..Len(value_name) |-> downcase(value_name[k])]

kebab(value_name) == kebab_from(value_name, 1)

\* "data-#{controller_name}-#{kebab_value_name}-value"
expected_attr(value_name) ==
    <<"data", "-">> \o CtlC \o <<"-">> \o kebab(value_name) \o <<"-", "value">>

\* the list common_mistakes before the filter
common_mistakes(value_name) ==
    << <<"data", "-">> \o value_name,
       <<"data", "-">> \o CtlC \o <<"-">> \o value_name,
       <<"data", "-">> \o CtlC \o <<"-">> \o kebab(value_name),
       <<"data", "-">> \o value_name \o <<"-", "value">> >>

stimulus_standard_attrs ==
    << <<"data", "-", "controller">>, <<"data", "-", "action">>, <<"data", "-", "target">> >>

\* String#start_with?
start_with(str, prefix) ==
    Len(prefix) <= Len(str) /\ SubSeq(str, 1, Len(prefix)) = prefix

\* common_mistakes.reject { |attr| stimulus_standard_attrs.any? { |std| attr.start_with?(std) } }
filtered_mistakes(value_name) ==
    SelectSeq(common_mistakes(value_name),
              LAMBDA attr : ~\E k \in 1..Len(stimulus_standard_attrs) :
                                 start_with(attr, stimulus_standard_attrs[k]))

\* controller_element.has_attribute?(attr) || content.include?(attr)
mistake_found(elem, content, attr) ==
    \/ attr \in elem
    \/ \E a \in content : StrInclude(a, attr)

found_mistakes(elem, content, value_name) ==
    SelectSeq(filtered_mistakes(value_name), LAMBDA attr : mistake_found(elem, content, attr))

\* the fragments of the view file, by what they hold:
\*   "other"   no data/value keyword
\*   "bad"     a data: { ... value ... } hash that does not parse
\*   "decl_n"  data: { c_n_value: ... }, parses
ValueBlockLists ==
    { <<>>, <<"bad">>, <<"other", "decl_n">>, <<"decl_n", "bad">> }

ValueBlockView(kind, value_name) ==
    CASE kind = "other"  -> [wanted |-> FALSE, parses |-> TRUE, hits |-> 0]
      [] kind = "bad"    -> [wanted |-> TRUE, parses |-> FALSE, hits |-> 0]
      [] kind = "decl_n" -> [wanted |-> TRUE, parses |-> TRUE,
                             hits |-> IF value_name = ValN THEN 1 ELSE 0]

\* erb_parser.find_stimulus_values(controller_name, value_name)
erb_values(vblocks, value_name) ==
    find_stimulus_values([b \in 1..Len(vblocks) |-> ValueBlockView(vblocks[b], value_name)])

\* next if values_with_defaults.include?(value_name) ; next if values_with_skip.include?(value_name)
value_skipped(cdata, value_name) ==
    \/ ArrInclude(cdata.values_with_defaults, value_name)
    \/ ArrInclude(cdata.values_with_skip, value_name)

\* the outcome of one pass of the loop over the values
ClassifyValue(elem, content, vblocks, cdata, value_name) ==
    IF value_skipped(cdata, value_name) THEN "skipped"
    ELSE IF expected_attr(value_name) \in elem THEN "found"
    ELSE IF erb_values(vblocks, value_name).raised THEN "raised"
    ELSE IF erb_values(vblocks, value_name).results # <<>> THEN "found"
    ELSE IF found_mistakes(elem, content, value_name) # <<>> THEN "mistake"
    ELSE "missing"

ValueData ==
    { [values |-> <<ValN, ValNM>>, values_with_defaults |-> o[1], values_with_skip |-> o[2]] :
        o \in {<< <<>>, <<>> >>, << <<ValN>>, <<>> >>, << <<>>, <<ValNM>> >>} }
    \cup
    { [values |-> <<ValTarget>>, values_with_defaults |-> <<>>, values_with_skip |-> <<>>] }

\* the attribute names the controller element may carry
ElementAttrPool ==
    { <<"data", "-", "c", "-", "n", "-", "value">>,
      <<"data", "-", "c", "-", "n", "-", "m", "-", "value">>,
      <<"data", "-", "c", "-", "n">>,
      <<"data", "-", "n", "M">>,
      <<"data", "-", "c", "-", "n", "-", "m">>,
      <<"data", "-", "target">> }

\* the attribute names of the other elements of the file
OtherAttrSets ==
    { {},
      {<<"data", "-", "c", "-", "n", "-", "value">>},
      {<<"data", "-", "n", "M", "-", "value">>},
      {<<"data", "-", "c", "-", "target">>} }

InitValue ==
    /\ ValueOthersIdle
    /\ element_attrs \in SUBSET ElementAttrPool
    /\ \E others \in OtherAttrSets : content_attrs = element_attrs \cup others
    /\ value_blocks \in ValueBlockLists
    /\ value_data \in ValueData
    /\ vi = 1
    /\ value_errors = <<>>
    /\ vpc = "each"

CurValue == value_data.values[vi]

CurValueOutcome ==
    ClassifyValue(element_attrs, content_attrs, value_blocks, value_data, CurValue)

ValuePending == vpc = "each" /\ vi <= Len(value_data.values)

NextValue ==
    /\ vi' = vi + 1
    /\ UNCHANGED <<element_attrs, content_attrs, value_blocks, value_data, vpc>>
    /\ ValueOthers

ValueSkipped ==
    /\ ValuePending /\ CurValueOutcome = "skipped"
    /\ UNCHANGED value_errors
    /\ NextValue

ValueFound ==
    /\ ValuePending /\ CurValueOutcome = "found"
    /\ UNCHANGED value_errors
    /\ NextValue

\* find_stimulus_values raises the parse error of a fragment
ValueQueryRaises ==
    /\ ValuePending /\ CurValueOutcome = "raised"
    /\ vpc' = "raised"
    /\ UNCHANGED <<element_attrs, content_attrs, value_blocks, value_data, vi, value_errors>>
    /\ ValueOthers

ValueMistake ==
    /\ ValuePending /\ CurValueOutcome = "mistake"
    /\ value_errors' = Append(value_errors,
           [controller |-> CtlC, value |-> CurValue, expected |-> expected_attr(CurValue),
            found |-> found_mistakes(element_attrs, content_attrs, CurValue)[1]])
    /\ NextValue

ValueMissing ==
    /\ ValuePending /\ CurValueOutcome = "missing"
    /\ value_errors' = Append(value_errors,
           [controller |-> CtlC, value |-> CurValue, expected |-> expected_attr(CurValue),
            found |-> NoAttr])
    /\ NextValue

ValuesDone ==
    /\ vpc = "each" /\ vi > Len(value_data.values)
    /\ vpc' = "done"
    /\ UNCHANGED <<element_attrs, content_attrs, value_blocks, value_data, vi, value_errors>>
    /\ ValueOthers

NextValueValidator ==
    \/ ValueSkipped
    \/ ValueFound
    \/ ValueQueryRaises
    \/ ValueMistake
    \/ ValueMissing
    \/ ValuesDone

SpecValue == InitValue /\ [][NextValueValidator]_vars

(***************************************************************************)
(* Properties of the value validator.                                      *)
(***************************************************************************)
KebabOf(value_name) ==
    CASE value_name = ValN      -> <<"n">>
      [] value_name = ValNM     -> <<"n", "-", "m">>
      [] value_name = ValTarget -> <<"target">>

ExpectedName(value_name) == <<"data", "-", "c", "-">> \o KebabOf(value_name) \o <<"-", "value">>

\* the four variants in the order in which they are tried
MistakeVariants(value_name) ==
    << <<"data", "-">> \o value_name,
       <<"data", "-", "c", "-">> \o value_name,
       <<"data", "-", "c", "-">> \o KebabOf(value_name),
       <<"data", "-">> \o value_name \o <<"-", "value">> >>

\* the text of the name occurs in the file
OccursInFile(attr) ==
    \E a \in content_attrs : \E k \in 1..Len(a) :
        k + Len(attr) - 1 <= Len(a) /\ SubSeq(a, k, k + Len(attr) - 1) = attr

IsStandardName(attr) ==
    /\ Len(attr) >= 3
    /\ attr[1] = "data" /\ attr[2] = "-"
    /\ attr[3] \in {"controller", "action", "target"}

RequiredValue(value_name) ==
    /\ \A k \in 1..Len(value_data.values_with_defaults) : value_data.values_with_defaults[k] # value_name
    /\ \A k \in 1..Len(value_data.values_with_skip) : value_data.values_with_skip[k] # value_name

ValueOnElement == ExpectedName(CurValue) \in element_attrs

FragmentYieldsValue ==
    CurValue = ValN /\ \E b \in 1..Len(value_blocks) : value_blocks[b] = "decl_n"

ValueFragmentFailsToParse == \E b \in 1..Len(value_blocks) : value_blocks[b] = "bad"

NoNewValueFinding == value_errors' = value_errors

\* one finding that names the first of the variants that satisfies Counts,
\* a missing-value finding when none does
OneValueFinding(Counts(_)) ==
    LET variants == MistakeVariants(CurValue)
        present  == {k \in 1..Len(variants) : Counts(variants[k])}
        first    == IF present = {} THEN NoAttr
                    ELSE variants[CHOOSE k \in present : \A h \in present : k <= h]
    IN  value_errors' = Append(value_errors,
            [controller |-> CtlC, value |-> CurValue,
             expected |-> ExpectedName(CurValue), found |-> first])

CountsAsMistake(attr) == OccursInFile(attr) /\ ~IsStandardName(attr)

MaxDocElems == 2

CtlX == <<"x">>

SelDc == <<"[dc=x]">>
SelK == <<".k">>
SelUnclosed == <<"[dc=x">>
SelTwoLines == <<".k", "\n", "[dc=x]">>

\* Nokogiri::CSS::SyntaxError
css_syntax_error(selector) == \E k \in 1..Len(selector) : selector[k] = "[dc=x"

\* the simple selectors of the string, white space between them
css_simples(selector) == SelectSeq(selector, LAMBDA t : t \notin {" ", "\n"})

simple_match(d, e, t) ==
    CASE t = "[dc=x]" -> d.data_controller[e] = CtlX
      [] t = ".k"     -> d.class[e] = "k"
      [] OTHER        -> FALSE

\* e matches the n-th simple selector and has ancestors among the searched
\* elements that match the ones before it
RECURSIVE chain_match(_, _, _, _, _)
chain_match(d, searched, simples, n, e) ==
    /\ simple_match(d, e, simples[n])
    /\ \/ n = 1
       \/ \E a \in searched :
             /\ ArrInclude(ancestors(d.parent, e), a)
             /\ chain_match(d, searched, simples, n - 1, a)

\* node.css(selector) over the searched elements (the descendants of node)
css(d, searched, selector) ==
    {e \in searched : chain_match(d, searched, css_simples(selector), Len(css_simples(selector)), e)}

all_elements(d) == 1..Len(d.parent)

(***************************************************************************)
(* The outlet validator (Core Validation: outlets) for the element that    *)
(* carries the controller c.                                               *)
(***************************************************************************)
OutletO == <<"o">>
OutletUS == <<"u", "_", "s">>

\* outlet_name.gsub('_', '-')
gsub_underscore(outlet_name) ==
    [k \in 1..Len(outlet_name) |-> IF outlet_name[k] = "_" THEN "-" ELSE outlet_name[k]]

\* "data-#{controller_name}-#{outlet_name.gsub('_', '-')}-outlet"
outlet_attr(outlet_name) ==
    <<"data", "-">> \o CtlC \o <<"-">> \o gsub_underscore(outlet_name) \o <<"-", "outlet">>

\* "#{outlet_attr}-value"
wrong_attr_with_value(outlet_name) == outlet_attr(outlet_name) \o <<"-", "value">>

\* controller_element.has_attribute?(name)
has_attribute(attrs, name) == name \in DOMAIN attrs /\ attrs[name] # NoAttr

\* outlet_selector.match?(/^\[data-controller/): ^ is the start of a line
match_outlet_pattern(selector) ==
    \E k \in 1..Len(selector) :
        /\ k = 1 \/ selector[k - 1] = "\n"
        /\ selector[k] \in {"[dc=x]", "[dc=x"}

\* the outcome of one pass of the loop over the outlets
ClassifyOutlet(d, attrs, outlet_name) ==
    IF ~has_attribute(attrs, outlet_attr(outlet_name))
    THEN (IF has_attribute(attrs, wrong_attr_with_value(outlet_name))
          THEN "wrong_attribute_name" ELSE "missing_outlet")
    ELSE LET outlet_selector == attrs[outlet_attr(outlet_name)]
         IN  IF ~match_outlet_pattern(outlet_selector) THEN "invalid_selector"
             ELSE IF css_syntax_error(outlet_selector) THEN "raised"
             ELSE IF css(d, all_elements(d), outlet_selector) = {} THEN "target_not_found"
             ELSE "passes"

\* the documents with one element that carries the controller c
OutletDocs ==
    { [parent |-> p, data_controller |-> c, class |-> k] :
         p \in Trees(MaxDocElems),
         c \in {f \in [1..MaxDocElems -> {NoAttr, CtlC, CtlX}] :
                   Cardinality({e \in 1..MaxDocElems : f[e] = CtlC}) = 1},
         k \in [1..MaxDocElems -> {"", "k"}] }

OutletSelectors == {SelDc, SelK, SelUnclosed, SelTwoLines}

\* the outlet attributes of the controller element and their values
OutletAttrs ==
    { [name \in { <<"data", "-", "c", "-", "o", "-", "outlet">>,
                  <<"data", "-", "c", "-", "o", "-", "outlet", "-", "value">>,
                  <<"data", "-", "c", "-", "u", "-", "s", "-", "outlet">>,
                  <<"data", "-", "c", "-", "u", "_", "s", "-", "outlet">> } |->
          CASE name = <<"data", "-", "c", "-", "o", "-", "outlet">> -> v[1]
            [] name = <<"data", "-", "c", "-", "o", "-", "outlet", "-", "value">> -> v[2]
            [] name = <<"data", "-", "c", "-", "u", "-", "s", "-", "outlet">> -> v[3]
            [] OTHER -> v[4]] :
        v \in ({NoAttr} \cup OutletSelectors) \X {NoAttr, SelDc}
                \X ({NoAttr} \cup OutletSelectors) \X {NoAttr, SelDc} }

InitOutlet ==
    /\ OutletOthersIdle
    /\ outlet_doc \in OutletDocs
    /\ outlet_attrs \in OutletAttrs
    /\ outlet_data \in {<<OutletO>>, <<OutletUS>>, <<OutletO, OutletUS>>}
    /\ oi = 1
    /\ outlet_errors = <<>>
    /\ opc = "each"

CurOutlet == outlet_data[oi]

CurOutletOutcome == ClassifyOutlet(outlet_doc, outlet_attrs, CurOutlet)

OutletPending == opc = "each" /\ oi <= Len(outlet_data)

NextOutlet ==
    /\ oi' = oi + 1
    /\ UNCHANGED <<outlet_doc, outlet_attrs, outlet_data, opc>>
    /\ OutletOthers

OutletFinding(error_type, selector) ==
    outlet_errors' = Append(outlet_errors,
        [controller |-> CtlC, outlet |-> CurOutlet, selector |-> selector,
         error_type |-> error_type])

OutletWrongAttributeName ==
    /\ OutletPending /\ CurOutletOutcome = "wrong_attribute_name"
    /\ OutletFinding("wrong_attribute_name", NoAttr)
    /\ NextOutlet

OutletMissing ==
    /\ OutletPending /\ CurOutletOutcome = "missing_outlet"
    /\ OutletFinding("missing_outlet", NoAttr)
    /\ NextOutlet

OutletInvalidSelector ==
    /\ OutletPending /\ CurOutletOutcome = "invalid_selector"
    /\ OutletFinding("invalid_selector", outlet_attrs[outlet_attr(CurOutlet)])
    /\ NextOutlet

\* doc.css(outlet_selector) raises Nokogiri::CSS::SyntaxError, which nothing rescues
OutletSelectorRaises ==
    /\ OutletPending /\ CurOutletOutcome = "raised"
    /\ opc' = "raised"
    /\ UNCHANGED <<outlet_doc, outlet_attrs, outlet_data, oi, outlet_errors>>
    /\ OutletOthers

OutletTargetNotFound ==
    /\ OutletPending /\ CurOutletOutcome = "target_not_found"
    /\ OutletFinding("target_not_found", outlet_attrs[outlet_attr(CurOutlet)])
    /\ NextOutlet

OutletPasses ==
    /\ OutletPending /\ CurOutletOutcome = "passes"
    /\ UNCHANGED outlet_errors
    /\ NextOutlet

OutletsDone ==
    /\ opc = "each" /\ oi > Len(outlet_data)
    /\ opc' = "done"
    /\ UNCHANGED <<outlet_doc, outlet_attrs, outlet_data, oi, outlet_errors>>
    /\ OutletOthers

NextOutletValidator ==
    \/ OutletWrongAttributeName
    \/ OutletMissing
    \/ OutletInvalidSelector
    \/ OutletSelectorRaises
    \/ OutletTargetNotFound
    \/ OutletPasses
    \/ OutletsDone

SpecOutlet == InitOutlet /\ [][NextOutletValidator]_vars

(***************************************************************************)
(* Properties of the outlet validator.                                     *)
(***************************************************************************)
OutletKebabOf(outlet_name) ==
    CASE outlet_name = OutletO  -> <<"o">>
      [] outlet_name = OutletUS -> <<"u", "-", "s">>

RequiredOutletAttr(outlet_name) ==
    <<"data", "-", "c", "-">> \o OutletKebabOf(outlet_name) \o <<"-", "outlet">>

OutletAttrPresent(name) == outlet_attrs[name] # NoAttr

\* the value of the attribute starts with [data-controller
StartsWithDataController(selector) == selector[1] \in {"[dc=x]", "[dc=x"}

\* some element of the document matches the selector
SelectorMatchesIn(d, selector) ==
    /\ ~css_syntax_error(selector)
    /\ css(d, all_elements(d), selector) # {}

NoNewOutletFinding == outlet_errors' = outlet_errors

OneOutletFinding(error_type) ==
    /\ Len(outlet_errors') = Len(outlet_errors) + 1
    /\ SubSeq(outlet_errors', 1, Len(outlet_errors)) = outlet_errors
    /\ outlet_errors'[Len(outlet_errors')].outlet = CurOutlet
    /\ outlet_errors'[Len(outlet_errors')].error_type = error_type

\* C13: for each declared outlet the required attribute is
\* data-{controller}-{kebab(outlet)}-outlet and at most one finding is
\* emitted: wrong_attribute_name when the attribute is absent and the same
\* name with a -value suffix is present, missing_outlet when it is absent,
\* invalid_selector when its value does not start with [data-controller,
\* target_not_found when the selector matches no element, otherwise none.
C13_OutletClassification ==
    [][ OutletPending =>
          LET required == RequiredOutletAttr(CurOutlet)
              wrong    == required \o <<"-", "value">>
              present  == OutletAttrPresent(required)
              value    == outlet_attrs[required]
          IN  /\ (~present /\ wrong \in DOMAIN outlet_attrs /\ OutletAttrPresent(wrong)
                     => OneOutletFinding("wrong_attribute_name"))
              /\ (~present /\ ~(wrong \in DOMAIN outlet_attrs /\ OutletAttrPresent(wrong))
                     => OneOutletFinding("missing_outlet"))
              /\ (present /\ ~StartsWithDataController(value)
                     => OneOutletFinding("invalid_selector"))
              /\ (present /\ StartsWithDataController(value)
                  /\ ~SelectorMatchesIn(outlet_doc, value)
                     => OneOutletFinding("target_not_found"))
              /\ (present /\ StartsWithDataController(value)
                  /\ SelectorMatchesIn(outlet_doc, value)
                     => NoNewOutletFinding) ]_vars

(***************************************************************************)
(* The selector validator (QuerySelector Validation) for the controller c  *)
(* and one view file.                                                      *)
(***************************************************************************)
\* doc.css("[data-controller]").select { |element|
\*   element['data-controller'].split(/\s+/).include?(controller_name) }
selector_controller_elements(d) ==
    SelectSeq([e \in 1..Len(d.parent) |-> e],
              LAMBDA e : /\ d.data_controller[e] # NoAttr
                         /\ ArrInclude(SplitWs(d.data_controller[e]), CtlC))

\* controller_elements.each: some controller element has a match among its
\* descendants; a syntax error is rescued for each element
found_in_scope(d, selector) ==
    /\ ~css_syntax_error(selector)
    /\ \E k \in 1..Len(selector_controller_elements(d)) :
          css(d, css_scope(d.parent, selector_controller_elements(d)[k]), selector) # {}

\* controller_elements.all? { |ce| !ce.css('*').include?(element) && element != ce }
is_outside(d, element) ==
    \A k \in 1..Len(selector_controller_elements(d)) :
        LET controller_element == selector_controller_elements(d)[k]
        IN  /\ element \notin css_scope(d.parent, controller_element)
            /\ element # controller_element

found_outside_scope_AnyMatch(d, selector) ==
    css(d, all_elements(d), selector) # {}

found_outside_scope(d, selector) ==
    \E element \in css(d, all_elements(d), selector) : is_outside(d, element)

\* the outcome of one pass of the loop over the recorded selectors
ClassifySelector(d, qs) ==
    IF qs.isTemplate THEN "template"
    ELSE IF qs.skipValidation THEN "skip"
    ELSE IF found_in_scope(d, qs.selector) THEN "in_scope"
    ELSE IF css_syntax_error(qs.selector) THEN "invalid"
    ELSE IF found_outside_scope(d, qs.selector) THEN "out_of_scope"
    ELSE "missing"

SelectorDocs ==
    { [parent |-> p, data_controller |-> c, class |-> k] :
         p \in Trees(MaxDocElems),
         c \in [1..MaxDocElems -> {NoAttr, CtlC, CtlX}],
         k \in [1..MaxDocElems -> {"", "k"}] }

QuerySelector ==
    { [selector |-> SelK, isTemplate |-> FALSE, skipValidation |-> FALSE],
      [selector |-> SelDc, isTemplate |-> FALSE, skipValidation |-> FALSE],
      [selector |-> SelUnclosed, isTemplate |-> FALSE, skipValidation |-> FALSE],
      [selector |-> SelK, isTemplate |-> TRUE, skipValidation |-> FALSE],
      [selector |-> SelK, isTemplate |-> FALSE, skipValidation |-> TRUE] }

MaxSelectors == 2

InitSelector ==
    /\ SelectorOthersIdle
    /\ selector_doc \in SelectorDocs
    /\ query_selectors \in SeqsUpTo(QuerySelector, MaxSelectors)
    /\ qsi = 1
    /\ selector_errors = <<>>
    /\ selector_scope_errors = <<>>
    /\ qspc = "file"

SelectorKeeps == UNCHANGED <<selector_doc, query_selectors>>

\* next if query_selectors.empty? ; next if controller_elements.empty?
SelectorFileSkipped ==
    /\ qspc = "file"
    /\ query_selectors = <<>> \/ selector_controller_elements(selector_doc) = <<>>
    /\ qspc' = "done"
    /\ UNCHANGED <<qsi, selector_errors, selector_scope_errors>>
    /\ SelectorKeeps /\ SelectorOthers

SelectorFileEntered ==
    /\ qspc = "file"
    /\ query_selectors # <<>> /\ selector_controller_elements(selector_doc) # <<>>
    /\ qspc' = "each"
    /\ UNCHANGED <<qsi, selector_errors, selector_scope_errors>>
    /\ SelectorKeeps /\ SelectorOthers

CurSelector == query_selectors[qsi]

CurSelectorOutcome == ClassifySelector(selector_doc, CurSelector)

SelectorPending == qspc = "each" /\ qsi <= Len(query_selectors)

NextSelector ==
    /\ qsi' = qsi + 1
    /\ UNCHANGED qspc
    /\ SelectorKeeps /\ SelectorOthers

SelectorTemplateSkipped ==
    /\ SelectorPending /\ CurSelectorOutcome = "template"
    /\ UNCHANGED <<selector_errors, selector_scope_errors>>
    /\ NextSelector

SelectorMarkedSkipped ==
    /\ SelectorPending /\ CurSelectorOutcome = "skip"
    /\ UNCHANGED <<selector_errors, selector_scope_errors>>
    /\ NextSelector

SelectorInScope ==
    /\ SelectorPending /\ CurSelectorOutcome = "in_scope"
    /\ UNCHANGED <<selector_errors, selector_scope_errors>>
    /\ NextSelector

\* rescue Nokogiri::CSS::SyntaxError ... next
SelectorSyntaxErrorRescued ==
    /\ SelectorPending /\ CurSelectorOutcome = "invalid"
    /\ UNCHANGED <<selector_errors, selector_scope_errors>>
    /\ NextSelector

SelectorOutOfScope ==
    /\ SelectorPending /\ CurSelectorOutcome = "out_of_scope"
    /\ selector_scope_errors' = Append(selector_scope_errors,
           [controller |-> CtlC, selector |-> CurSelector.selector])
    /\ UNCHANGED selector_errors
    /\ NextSelector

SelectorMissing ==
    /\ SelectorPending /\ CurSelectorOutcome = "missing"
    /\ selector_errors' = Append(selector_errors,
           [controller |-> CtlC, selector |-> CurSelector.selector])
    /\ UNCHANGED selector_scope_errors
    /\ NextSelector

SelectorsDone ==
    /\ qspc = "each" /\ qsi > Len(query_selectors)
    /\ qspc' = "done"
    /\ UNCHANGED <<qsi, selector_errors, selector_scope_errors>>
    /\ SelectorKeeps /\ SelectorOthers

NextSelectorValidator ==
    \/ SelectorFileSkipped
    \/ SelectorFileEntered
    \/ SelectorTemplateSkipped
    \/ SelectorMarkedSkipped
    \/ SelectorInScope
    \/ SelectorSyntaxErrorRescued
    \/ SelectorOutOfScope
    \/ SelectorMissing
    \/ SelectorsDone

SpecSelector == InitSelector /\ [][NextSelectorValidator]_vars

(***************************************************************************)
(* Properties of the selector validator.                                   *)
(***************************************************************************)
\* the element carries the controller c
CarriesController(e) ==
    ListsName(selector_doc.data_controller[e], CtlC)

RECURSIVE IsBelow(_, _)
\* element e is a proper descendant of element top
IsBelow(e, top) ==
    /\ e # 0
    /\ selector_doc.parent[e] # 0
    /\ (selector_doc.parent[e] = top \/ IsBelow(selector_doc.parent[e], top))

\* the elements the selector matches; a string that is no selector matches none
MatchedBy(selector) ==
    CASE selector = SelK  -> {e \in 1..Len(selector_doc.parent) : selector_doc.class[e] = "k"}
      [] selector = SelDc -> {e \in 1..Len(selector_doc.parent) :
                                 selector_doc.data_controller[e] = CtlX}
      [] OTHER -> {}

InsideController(e) ==
    \E top \in 1..Len(selector_doc.parent) : CarriesController(top) /\ IsBelow(e, top)

OutsideControllers(e) == ~CarriesController(e) /\ ~InsideController(e)

NoNewSelectorFinding ==
    /\ selector_errors' = selector_errors
    /\ selector_scope_errors' = selector_scope_errors

OneSelectorOutOfScope ==
    /\ selector_errors' = selector_errors
    /\ selector_scope_errors' = Append(selector_scope_errors,
           [controller |-> CtlC, selector |-> CurSelector.selector])

OneMissingSelector ==
    /\ selector_scope_errors' = selector_scope_errors
    /\ selector_errors' = Append(selector_errors,
           [controller |-> CtlC, selector |-> CurSelector.selector])

C15_SyntaxErrorNeverAborts == opc # "raised" /\ qspc # "raised"


(***************************************************************************)
(* The broadcast validator ('ActionCable Broadcast Type Validation') for   *)
(* one channel or job file.  The file is a sequence of method bodies, a    *)
(* method body a sequence of statements in source order:                   *)
(*   lvasgn   var = node                                                   *)
(*   send     ActionCable.server.broadcast(node, { pairs })                *)
(* A node is a string literal (str), an interpolated string (dstr, whose   *)
(* parts are literal text or an interpolation), a local variable (lvar) or *)
(* a method call (send).  Strings are sequences of characters.             *)
(***************************************************************************)
Nil == NoAttr

StrPart(text) == [str |-> TRUE, text |-> text]

Interpolation == [str |-> FALSE, text |-> <<>>]

StrNode(text) == [type |-> "str", parts |-> <<StrPart(text)>>, name |-> ""]

DstrNode(parts) == [type |-> "dstr", parts |-> parts, name |-> ""]

LvarNode(var) == [type |-> "lvar", parts |-> <<>>, name |-> var]

CallNode == [type |-> "send", parts |-> <<>>, name |-> ""]

Lvasgn(var, node) == [kind |-> "lvasgn", var |-> var, node |-> node, pairs |-> <<>>]

Broadcast(node, pairs) == [kind |-> "send", var |-> "", node |-> node, pairs |-> pairs]

Pair(key_type, key, value_type, value) ==
    [key_type |-> key_type, key |-> key, value_type |-> value_type, value |-> value]

\* case node.type when :str ... when :dstr: the first static part that is
\* not empty ... else nil
extract_string_from_node(node) ==
    CASE node.type = "str" -> node.parts[1].text
      [] node.type = "dstr" ->
            LET static == SelectSeq(node.parts, LAMBDA part : part.str /\ part.text # <<>>)
            IN  IF static = <<>> THEN Nil ELSE static[1].text
      [] OTHER -> Nil

\* case first_arg.type when :str ... when :dstr ... when :lvar then
\* local_vars[var_name] else nil
extract_broadcast_stream_name(broadcast_node, local_vars) ==
    CASE broadcast_node.node.type \in {"str", "dstr"} ->
            extract_string_from_node(broadcast_node.node)
      [] broadcast_node.node.type = "lvar" ->
            IF broadcast_node.node.name \in DOMAIN local_vars
            THEN local_vars[broadcast_node.node.name]
            ELSE Nil
      [] OTHER -> Nil

\* is_type_key && value.type == :str, for the first pair that passes
extract_broadcast_type_from_node(broadcast_node) ==
    LET typed == SelectSeq(broadcast_node.pairs,
                           LAMBDA pair : pair.key = "type" /\ pair.value_type = "str")
    IN  IF typed = <<>> THEN Nil ELSE typed[1].value

\* local_vars[var_name] = extracted if extracted
assign_local(local_vars, stmt) ==
    IF extract_string_from_node(stmt.node) = Nil THEN local_vars
    ELSE [v \in DOMAIN local_vars \cup {stmt.var} |->
            IF v = stmt.var THEN extract_string_from_node(stmt.node) ELSE local_vars[v]]

\* the walk over the statements of one method body from statement k on; the
\* hash local_vars is the one object of the whole walk
RECURSIVE broadcasts_in_body(_, _, _, _)
broadcasts_in_body(body, k, local_vars, found) ==
    IF k > Len(body) THEN [local_vars |-> local_vars, broadcasts |-> found]
    ELSE IF body[k].kind = "lvasgn"
         THEN broadcasts_in_body(body, k + 1, assign_local(local_vars, body[k]), found)
         ELSE broadcasts_in_body(body, k + 1, local_vars,
                  Append(found, [type |-> extract_broadcast_type_from_node(body[k]),
                                 stream_name |-> extract_broadcast_stream_name(body[k], local_vars)]))

\* node.children.each { |child| broadcasts.concat(find_actioncable_broadcasts_in_ast(child, local_vars)) }
\* over the method definitions of the file
RECURSIVE broadcasts_in_methods(_, _, _, _)
broadcasts_in_methods(file, m, local_vars, found) ==
    IF m > Len(file) THEN found
    ELSE LET body == broadcasts_in_body(file[m], 1, local_vars, found)
         IN  broadcasts_in_methods(file, m + 1, body.local_vars, body.broadcasts)

\* local_vars ||= {}
find_actioncable_broadcasts_in_ast(file) == broadcasts_in_methods(file, 1, <<>>, <<>>)

is_digit(ch) == ch = "1"

\* the length of the match of /_\d+$/, 0 when the string has none
RECURSIVE trailing_digits(_)
trailing_digits(str) ==
    IF str # <<>> /\ is_digit(str[Len(str)])
    THEN 1 + trailing_digits(SubSeq(str, 1, Len(str) - 1))
    ELSE 0

sub_trailing_number(str) ==
    LET d == trailing_digits(str)
    IN  IF d > 0 /\ Len(str) > d /\ str[Len(str) - d] = "_"
        THEN SubSeq(str, 1, Len(str) - d - 1)
        ELSE str

chomp_underscore(str) ==
    IF str # <<>> /\ str[Len(str)] = "_" THEN SubSeq(str, 1, Len(str) - 1) ELSE str

\* stream_name.sub(/_\d+$/, '').chomp('_')
infer_channel_name_from_stream(stream_name) ==
    chomp_underscore(sub_trailing_number(stream_name))

\* channel_name.dasherize
dasherize(channel_name) ==
    [k \in 1..Len(channel_name) |-> IF channel_name[k] = "_" THEN "-" ELSE channel_name[k]]

upcase(ch) == CASE ch = "n" -> "N" [] ch = "m" -> "M" [] OTHER -> ch

type_downcase(ch) == CASE ch = "N" -> "n" [] ch = "M" -> "m" [] OTHER -> ch

\* type_string.split(/[-_]/).map(&:capitalize).join('')
RECURSIVE capitalize_from(_, _, _)
capitalize_from(type_string, k, word_start) ==
    IF k > Len(type_string) THEN <<>>
    ELSE IF type_string[k] \in {"-", "_"} THEN capitalize_from(type_string, k + 1, TRUE)
    ELSE <<IF word_start THEN upcase(type_string[k]) ELSE type_downcase(type_string[k])>>
             \o capitalize_from(type_string, k + 1, FALSE)

capitalize_type(type_string) == capitalize_from(type_string, 1, TRUE)

\* "handle#{capitalize_type(type_value)}"
handler_name(type_value) == <<"handle">> \o capitalize_type(type_value)

\* File.exist?(Rails.root.join("app/javascript/controllers/#{channel_name}_controller.ts"))
frontend_file_exists(files, channel_name) == channel_name \in files

\* File.basename(file, '.ts').gsub('_controller', '').gsub('_', '-') of the files
controller_names(files) == {dasherize(f) : f \in files}

\* controller_data[controller_name]&.fetch(:methods, []) || []
methods_of(files, methods, controller_name) ==
    IF controller_name \in controller_names(files) THEN methods ELSE <<>>

\* the body of broadcasts.each for one broadcast
ClassifyBroadcast(files, methods, broadcast) ==
    IF broadcast.stream_name = Nil THEN "unresolved"
    ELSE IF ~frontend_file_exists(files, infer_channel_name_from_stream(broadcast.stream_name))
         THEN "missing_frontend_file"
    ELSE IF broadcast.type = Nil THEN "missing_type"
    ELSE IF ~ArrInclude(methods_of(files, methods,
                            dasherize(infer_channel_name_from_stream(broadcast.stream_name))),
                        handler_name(broadcast.type))
         THEN "missing_handler"
    ELSE "handled"

StreamC1 == <<"c", "_", "1">>
StreamD == <<"d">>
TypeDash == <<"n", "-", "m">>
TypeUnder == <<"n", "_", "m">>
TypeCamel == <<"n", "M">>
HandleNM == <<"handle", "N", "M">>
HandleNm == <<"handle", "N", "m">>

\* "c_#{id}"
DstrChat == DstrNode(<<StrPart(<<"c", "_">>), Interpolation>>)

\* "#{id}_c"
DstrLead == DstrNode(<<Interpolation, StrPart(<<"_", "c">>)>>)

\* { type: 'n-m' }
PayloadDash == <<Pair("sym", "type", "str", TypeDash)>>

Payloads ==
    { <<>>,
      PayloadDash,
      <<Pair("str", "type", "str", TypeUnder)>>,
      <<Pair("sym", "type", "str", TypeCamel)>>,
      <<Pair("sym", "type", "sym", TypeUnder)>>,
      <<Pair("sym", "data", "str", <<"x">>), Pair("sym", "type", "str", TypeDash)>> }

Assignments == {Lvasgn("v", n) : n \in {StrNode(StreamC1), StrNode(StreamD), DstrChat, CallNode}}

MethodBodies ==
    {<<>>}
    \cup {<<Broadcast(DstrChat, p)>> : p \in Payloads}
    \cup {<<Broadcast(n, PayloadDash)>> : n \in {StrNode(StreamC1), DstrLead, LvarNode("v"), CallNode}}
    \cup {<<a, Broadcast(LvarNode("v"), PayloadDash)>> : a \in Assignments}
    \cup {<<Broadcast(LvarNode("v"), PayloadDash), a>> : a \in Assignments}
    \cup {<<Lvasgn("v", StrNode(StreamD)), Lvasgn("v", CallNode), Broadcast(LvarNode("v"), PayloadDash)>>}

SourceFiles == {<<m>> : m \in MethodBodies} \cup {<<m, n>> : m, n \in MethodBodies}

InitBroadcast ==
    /\ BroadcastOthersIdle
    /\ source_file \in SourceFiles
    /\ source_parses \in BOOLEAN
    /\ frontend_files \in {{}, {<<"c">>}, {<<"c">>, <<"d">>}}
    /\ frontend_methods \in {<<>>, <<HandleNM>>, <<HandleNm>>}
    /\ broadcasts = <<>>
    /\ bi = 0
    /\ broadcast_errors = <<>>
    /\ bpc = "parse"

BroadcastKeeps ==
    /\ UNCHANGED <<source_file, source_parses, frontend_files, frontend_methods>>
    /\ BroadcastOthers

\* rescue Parser::SyntaxError; next
BroadcastFileSkipped ==
    /\ bpc = "parse"
    /\ ~source_parses
    /\ bpc' = "done"
    /\ UNCHANGED <<broadcasts, bi, broadcast_errors>>
    /\ BroadcastKeeps

\* broadcasts = find_actioncable_broadcasts_in_ast(ast)
BroadcastsFound ==
    /\ bpc = "parse"
    /\ source_parses
    /\ broadcasts' = find_actioncable_broadcasts_in_ast(source_file)
    /\ bi' = 1
    /\ bpc' = "each"
    /\ UNCHANGED broadcast_errors
    /\ BroadcastKeeps

CurBroadcast == broadcasts[bi]

CurBroadcastOutcome == ClassifyBroadcast(frontend_files, frontend_methods, CurBroadcast)

BroadcastPending == bpc = "each" /\ bi <= Len(broadcasts)

NextBroadcast ==
    /\ bi' = bi + 1
    /\ UNCHANGED <<broadcasts, bpc>>
    /\ BroadcastKeeps

BroadcastFinding(error_type) ==
    [stream_name |-> CurBroadcast.stream_name,
     channel_name |-> infer_channel_name_from_stream(CurBroadcast.stream_name),
     type |-> CurBroadcast.type,
     expected_method |-> IF CurBroadcast.type = Nil THEN Nil ELSE handler_name(CurBroadcast.type),
     error_type |-> error_type]

\* next unless stream_name
BroadcastUnresolved ==
    /\ BroadcastPending
    /\ CurBroadcastOutcome = "unresolved"
    /\ UNCHANGED broadcast_errors
    /\ NextBroadcast

BroadcastMissingFrontendFile ==
    /\ BroadcastPending
    /\ CurBroadcastOutcome = "missing_frontend_file"
    /\ broadcast_errors' = Append(broadcast_errors, BroadcastFinding("missing_frontend_file"))
    /\ NextBroadcast

BroadcastMissingType ==
    /\ BroadcastPending
    /\ CurBroadcastOutcome = "missing_type"
    /\ broadcast_errors' = Append(broadcast_errors, BroadcastFinding("missing_type"))
    /\ NextBroadcast

BroadcastMissingHandler ==
    /\ BroadcastPending
    /\ CurBroadcastOutcome = "missing_handler"
    /\ broadcast_errors' = Append(broadcast_errors, BroadcastFinding("missing_handler"))
    /\ NextBroadcast

BroadcastHandled ==
    /\ BroadcastPending
    /\ CurBroadcastOutcome = "handled"
    /\ UNCHANGED broadcast_errors
    /\ NextBroadcast

BroadcastsDone ==
    /\ bpc = "each" /\ bi > Len(broadcasts)
    /\ bpc' = "done"
    /\ UNCHANGED <<broadcasts, bi, broadcast_errors>>
    /\ BroadcastKeeps

NextBroadcastValidator ==
    \/ BroadcastFileSkipped
    \/ BroadcastsFound
    \/ BroadcastUnresolved
    \/ BroadcastMissingFrontendFile
    \/ BroadcastMissingType
    \/ BroadcastMissingHandler
    \/ BroadcastHandled
    \/ BroadcastsDone

SpecBroadcast == InitBroadcast /\ [][NextBroadcastValidator]_vars

(***************************************************************************)
(* Properties of the broadcast validator.                                  *)
(***************************************************************************)
\* the broadcast calls of the file in source order, as <<method, statement>>
RECURSIVE CallsFrom(_, _)
CallsFrom(m, st) ==
    IF m > Len(source_file) THEN <<>>
    ELSE IF st > Len(source_file[m]) THEN CallsFrom(m + 1, 1)
    ELSE (IF source_file[m][st].kind = "send" THEN << <<m, st>> >> ELSE <<>>)
            \o CallsFrom(m, st + 1)

BroadcastCalls == CallsFrom(1, 1)

CallAt(k) == source_file[BroadcastCalls[k][1]][BroadcastCalls[k][2]]

\* the channel a stream name stands for
ChannelOf(stream_name) ==
    CASE stream_name \in {<<"c">>, <<"c", "_">>, <<"c", "_", "1">>} -> <<"c">>
      [] stream_name = <<"d">> -> <<"d">>
      [] OTHER -> stream_name

HasTypeField(call) == \E k \in 1..Len(call.pairs) : call.pairs[k].key = "type"

TypeField(call) ==
    call.pairs[CHOOSE k \in 1..Len(call.pairs) : call.pairs[k].key = "type"].value

\* 'handle' + PascalCase(type)
HandlerOf(type_value) ==
    IF type_value \in {TypeDash, TypeUnder, TypeCamel} THEN <<"handle", "N", "M">>
    ELSE <<"handle">> \o type_value

HandlerListed(call) ==
    \E k \in 1..Len(frontend_methods) : frontend_methods[k] = HandlerOf(TypeField(call))

NoNewBroadcastFinding == broadcast_errors' = broadcast_errors

OneBroadcastFinding(error_type) ==
    /\ Len(broadcast_errors') = Len(broadcast_errors) + 1
    /\ SubSeq(broadcast_errors', 1, Len(broadcast_errors)) = broadcast_errors
    /\ broadcast_errors'[Len(broadcast_errors')].error_type = error_type

HandlerFindingNames(call) ==
    broadcast_errors'[Len(broadcast_errors')].expected_method = HandlerOf(TypeField(call))

\* C16: for a broadcast call with a resolved stream name the validator emits
\* at most one finding: missing_frontend_file when the channel has no
\* controller file, else missing_type when the payload has no type field,
\* else missing_handler, naming 'handle' + PascalCase(type), exactly when
\* the methods of the controller do not list that name.
C16_BroadcastClassification ==
    [][ (BroadcastPending /\ CurBroadcast.stream_name # Nil) =>
            LET call == CallAt(bi)
                file == ChannelOf(CurBroadcast.stream_name) \in frontend_files
            IN  /\ \/ NoNewBroadcastFinding
                   \/ OneBroadcastFinding("missing_frontend_file")
                   \/ OneBroadcastFinding("missing_type")
                   \/ OneBroadcastFinding("missing_handler")
                /\ (~file => OneBroadcastFinding("missing_frontend_file"))
                /\ (file /\ ~HasTypeField(call) => OneBroadcastFinding("missing_type"))
                /\ (file /\ HasTypeField(call) /\ HandlerListed(call) => NoNewBroadcastFinding)
                /\ (file /\ HasTypeField(call) /\ ~HandlerListed(call) =>
                        OneBroadcastFinding("missing_handler") /\ HandlerFindingNames(call)) ]_vars

\* the text of a string node; of an interpolated string the literal text
\* before the first interpolation
StaticPrefix(node) ==
    CASE node.type = "str" -> node.parts[1].text
      [] node.type = "dstr" ->
            IF node.parts # <<>> /\ node.parts[1].str THEN node.parts[1].text ELSE Nil
      [] OTHER -> Nil

\* the assignments to var that precede statement st in method body m
PrecedingAssignments(m, st, var) ==
    {a \in 1..(st - 1) : source_file[m][a].kind = "lvasgn" /\ source_file[m][a].var = var}

Maximum(S) == CHOOSE x \in S : \A y \in S : y <= x

StreamOfCall(m, st) ==
    LET node == source_file[m][st].node
    IN  IF node.type = "lvar"
        THEN IF PrecedingAssignments(m, st, node.name) = {} THEN Nil
             ELSE StaticPrefix(source_file[m][Maximum(PrecedingAssignments(m, st, node.name))].node)
        ELSE StaticPrefix(node)

\* C17: the stream name of a broadcast call is the literal itself, the
\* static prefix of an interpolated string, and for a local variable the
\* string of the assignment that precedes the call in the same method body;
\* assignments in other methods of the file have no part in it.
C17_StreamNameResolution ==
    bpc \in {"each", "done"} /\ source_parses =>
        /\ Len(broadcasts) = Len(BroadcastCalls)
        /\ \A k \in 1..Len(broadcasts) :
               broadcasts[k].stream_name = StreamOfCall(BroadcastCalls[k][1], BroadcastCalls[k][2])


(***************************************************************************)
(* The construction of controller_data.  controller_data is a memoized     *)
(* let: an example builds the hash when it first evaluates the name, by    *)
(* running the extractor (bin/parse_ts_controller.js) on every             *)
(* *_controller.ts file in turn.  An example that never evaluates the name *)
(* (the broadcast validator when no broadcast reaches the handler lookup)  *)
(* never builds the hash.                                                  *)
(***************************************************************************)
MaxControllerFiles == 3

\* the base names of the controller files, without '_controller.ts'
ControllerFileNames == {<<"c">>, <<"d">>, <<"c", "_", "d">>}

\* File.basename(file, '.ts').gsub('_controller', '').gsub('_', '-')
controller_name_of(file) ==
    [k \in 1..Len(file.name) |-> IF file.name[k] = "_" THEN "-" ELSE file.name[k]]

extractor_outcome_Skip(file) == IF file.success THEN "stored" ELSE "skipped"

\* if $?.success? ... data[controller_name] = {...} else raise 'Parse ts controller failed'
extractor_outcome(file) == IF file.success THEN "stored" ELSE "raised"

InitBuild ==
    /\ BuildOthersIdle
    /\ controller_files \in
         {fs \in SeqsUpTo([name : ControllerFileNames, success : BOOLEAN], MaxControllerFiles) :
             \A a, b \in 1..Len(fs) : a # b => fs[a].name # fs[b].name}
    /\ references_map \in BOOLEAN
    /\ data = {}
    /\ cfi = 0
    /\ example_findings = {}
    /\ cdpc = "example"

BuildKeeps ==
    /\ UNCHANGED <<controller_files, references_map>>
    /\ BuildOthers

\* the first evaluation of controller_data: data = {}
MapReferenced ==
    /\ cdpc = "example"
    /\ references_map
    /\ cdpc' = "building"
    /\ cfi' = 1
    /\ UNCHANGED <<data, example_findings>>
    /\ BuildKeeps

\* an example that goes through without evaluating controller_data
ExampleWithoutMap ==
    /\ cdpc = "example"
    /\ ~references_map
    /\ cdpc' = "reported"
    /\ UNCHANGED <<data, cfi, example_findings>>
    /\ BuildKeeps

\* one pass of Dir.glob(...).each that does not raise
ControllerFileDone ==
    /\ cdpc = "building"
    /\ cfi <= Len(controller_files)
    /\ extractor_outcome(controller_files[cfi]) # "raised"
    /\ data' = IF extractor_outcome(controller_files[cfi]) = "stored"
               THEN data \cup {controller_name_of(controller_files[cfi])}
               ELSE data
    /\ cfi' = cfi + 1
    /\ UNCHANGED <<example_findings, cdpc>>
    /\ BuildKeeps

\* raise 'Parse ts controller failed': the example ends with the exception
ExtractorFails ==
    /\ cdpc = "building"
    /\ cfi <= Len(controller_files)
    /\ extractor_outcome(controller_files[cfi]) = "raised"
    /\ cdpc' = "raised"
    /\ UNCHANGED <<data, cfi, example_findings>>
    /\ BuildKeeps

\* the block of the let returns data
MapBuilt ==
    /\ cdpc = "building"
    /\ cfi > Len(controller_files)
    /\ cdpc' = "validating"
    /\ UNCHANGED <<data, cfi, example_findings>>
    /\ BuildKeeps

\* the validator goes over the entries of the hash and reports its findings
ValidatorReports ==
    /\ cdpc = "validating"
    /\ example_findings' \in SUBSET data
    /\ cdpc' = "reported"
    /\ UNCHANGED <<data, cfi>>
    /\ BuildKeeps

NextBuild ==
    \/ MapReferenced
    \/ ExampleWithoutMap
    \/ ControllerFileDone
    \/ ExtractorFails
    \/ MapBuilt
    \/ ValidatorReports

SpecBuild == InitBuild /\ [][NextBuild]_vars

(***************************************************************************)
(* Properties of the construction of controller_data.                      *)
(***************************************************************************)
ExtractorFailsOnSomeFile ==
    \E k \in 1..Len(controller_files) : ~controller_files[k].success

\* the name under which a controller file is entered in the map
DescriptorKey(k) ==
    CASE controller_files[k].name = <<"c", "_", "d">> -> <<"c", "-", "d">>
      [] OTHER -> controller_files[k].name

MapIsComplete == \A k \in 1..Len(controller_files) : DescriptorKey(k) \in data

\* C18: when the extractor fails on a controller file, building the map
\* ends in a hard failure: a validator that uses the map runs only against
\* a map that holds every controller, and an example that built a partial
\* map reports no finding.
C18_NoValidatorOnPartialMap ==
    /\ (cdpc = "validating" \/ (cdpc = "reported" /\ references_map) => MapIsComplete)
    /\ (references_map /\ ExtractorFailsOnSomeFile =>
            /\ cdpc \in {"example", "building", "raised"}
            /\ example_findings = {})
    /\ (cdpc = "building" /\ cfi > Len(controller_files) => ~ExtractorFailsOnSomeFile)

\* the extractor succeeded on the first file and failed on the second: the
\* example ended with the exception, the map holds one controller of three
C18_Witness ==
    /\ cdpc = "raised"
    /\ Len(controller_files) = 3
    /\ controller_files[1].success
    /\ ~controller_files[2].success
    /\ data = {DescriptorKey(1)}
    /\ example_findings = {}


(***************************************************************************)
(* The fragment preprocessor (preprocess_erb_code).  The code is a         *)
(* sequence of lexical tokens: a word ("data", "end", "do"), a blank, a    *)
(* line break, a bar, a quote, or a bracket.  The regular expressions of   *)
(* the code are evaluated on the tokens as Ruby evaluates them on the      *)
(* characters: ^ and $ stand at the borders of every line, \s takes the    *)
(* line break, the dot does not.                                           *)
(***************************************************************************)
MaxPieces == 4

stimulus_keywords == <<"data", "controller", "target", "action", "value">>

control_words ==
    {"if", "unless", "case", "when", "else", "elsif", "end", "do", "while", "for",
     "begin", "rescue", "ensure"}

definition_words == {"def", "class", "module"}

is_word(tok) == tok \in {"data", "end", "do"} \cup control_words \cup definition_words

is_space(tok) == tok \in {" ", "\n"}

\* stimulus_keywords.any? { |keyword| code.include?(keyword) }
any_keyword(code) ==
    \E w \in 1..Len(stimulus_keywords) : \E k \in 1..Len(code) : code[k] = stimulus_keywords[w]

\* String#strip
RECURSIVE lstrip(_)
lstrip(code) == IF code # <<>> /\ is_space(Head(code)) THEN lstrip(Tail(code)) ELSE code

RECURSIVE rstrip(_)
rstrip(code) ==
    IF code # <<>> /\ is_space(code[Len(code)]) THEN rstrip(SubSeq(code, 1, Len(code) - 1))
    ELSE code

strip(code) == rstrip(lstrip(code))

\* ^ matches before position k, $ matches after position k
at_line_start(code, k) == k = 1 \/ code[k - 1] = "\n"

at_line_end(code, k) == k = Len(code) \/ code[k + 1] = "\n"

\* \b after the word that ends at position k
word_ends(code, k) == k = Len(code) \/ ~is_word(code[k + 1])

\* ^\w+\s* matches the tokens from..(upto - 1)
words_then_spaces(code, from, upto) ==
    /\ at_line_start(code, from)
    /\ \E w \in from..(upto - 1) :
          /\ \A k \in from..w : is_word(code[k])
          /\ \A k \in (w + 1)..(upto - 1) : is_space(code[k])

\* /^\w+\s*\(.*\)$/
match_simple_call(code) ==
    \E from, open, close \in 1..Len(code) :
        /\ from < open /\ open < close
        /\ words_then_spaces(code, from, open)
        /\ code[open] = "("
        /\ \A k \in (open + 1)..(close - 1) : code[k] # "\n"
        /\ code[close] = ")"
        /\ at_line_end(code, close)

\* /^[...]+$/ for a class of tokens
match_line_of(code, class) ==
    \E from, to \in 1..Len(code) :
        /\ from <= to
        /\ at_line_start(code, from)
        /\ at_line_end(code, to)
        /\ \A k \in from..to : code[k] \in class \/ (is_word(code[k]) /\ "w" \in class)

\* /^[\w\.\[\]]+$/
match_simple_expression(code) == match_line_of(code, {"w", ".", "[", "]"})

\* /^[\w\.\[\]"']+$/
match_quoted_expression(code) == match_line_of(code, {"w", ".", "[", "]", "'"})

\* /^(if|unless|...)\b/ and /^(def|class|module)\b/
match_leading_word(code, words) ==
    \E k \in 1..Len(code) :
        at_line_start(code, k) /\ code[k] \in words /\ word_ends(code, k)

\* /^@?\w+\s*[=\[]/
match_assignment(code) ==
    \E from, at \in 1..Len(code) :
        /\ from < at
        /\ words_then_spaces(code, from, at)
        /\ code[at] \in {"=", "["}

\* code.gsub(/'[^']*'|"[^"]*"/, '')
RECURSIVE without_strings(_)
without_strings(code) ==
    IF code = <<>> THEN <<>>
    ELSE IF Head(code) = "'" /\ \E k \in 2..Len(code) : code[k] = "'"
         THEN LET close == CHOOSE k \in 2..Len(code) :
                               code[k] = "'" /\ \A h \in 2..(k - 1) : code[h] # "'"
              IN  without_strings(SubSeq(code, close + 1, Len(code)))
         ELSE <<Head(code)>> \o without_strings(Tail(code))

\* code_without_strings.match?(/\bend\b/)
processed_has_end_keyword(code) ==
    LET c == without_strings(code)
    IN  \E k \in 1..Len(c) :
            /\ c[k] = "end"
            /\ (k = 1 \/ ~is_word(c[k - 1]))
            /\ word_ends(c, k)

\* String#count
count(code, tok) == Cardinality({k \in 1..Len(code) : code[k] = tok})

RECURSIVE times(_, _)
times(str, n) == IF n <= 0 THEN <<>> ELSE str \o times(str, n - 1)

\* processed += "\nend" for a block opener without an end
close_block(processed) ==
    IF processed_has_end_keyword(processed) THEN processed
    ELSE IF StrInclude(processed, <<" ", "do", " ", "|">>)
         THEN processed \o <<"\n", "end">>
    ELSE IF StrInclude(processed, <<" ", "do">>) /\ ~StrInclude(processed, <<"|">>)
         THEN processed \o <<"\n", "end">>
    ELSE processed

balance_OnePerOpener(processed, open, close) ==
    processed \o times(<<" ", close>>, count(processed, open))

\* if processed.count('{') > processed.count('}')
\*   processed += ' }' * (processed.count('{') - processed.count('}'))
balance(processed, open, close) ==
    IF count(processed, open) > count(processed, close)
    THEN processed \o times(<<" ", close>>, count(processed, open) - count(processed, close))
    ELSE processed

preprocess_erb_code(code) ==
    IF ~any_keyword(code) THEN code
    ELSE IF match_simple_call(strip(code)) \/ match_simple_expression(strip(code)) THEN code
    ELSE IF match_leading_word(strip(code), control_words) THEN code
    ELSE IF match_leading_word(strip(code), definition_words) THEN code
    ELSE IF match_assignment(strip(code)) \/ match_quoted_expression(strip(code)) THEN code
    ELSE balance(balance(balance(close_block(code), "{", "}"), "[", "]"), "(", ")")

\* the pieces the fragments are put together from
CodePieces ==
    { <<"data">>, <<"end">>, <<" ", "do">>, <<" ", "|">>, <<" ">>, <<"\n">>,
      <<"(">>, <<")">>, <<"{">>, <<"[">>, <<"'">> }

RECURSIVE Flatten(_)
Flatten(pieces) == IF pieces = <<>> THEN <<>> ELSE Head(pieces) \o Flatten(Tail(pieces))

InitPreprocess ==
    /\ PreprocessOthersIdle
    /\ fragment_code \in {Flatten(ps) : ps \in SeqsUpTo(CodePieces, MaxPieces)}
    /\ processed_once = <<>>
    /\ processed_twice = <<>>
    /\ pppc = "code"

\* processed_code = preprocess_erb_code(block[:code])
Preprocess ==
    /\ pppc = "code"
    /\ processed_once' = preprocess_erb_code(fragment_code)
    /\ pppc' = "once"
    /\ UNCHANGED <<fragment_code, processed_twice>>
    /\ PreprocessOthers

\* the preprocessor applied to its own output
PreprocessAgain ==
    /\ pppc = "once"
    /\ processed_twice' = preprocess_erb_code(processed_once)
    /\ pppc' = "twice"
    /\ UNCHANGED <<fragment_code, processed_once>>
    /\ PreprocessOthers

NextPreprocess ==
    \/ Preprocess
    \/ PreprocessAgain

SpecPreprocess == InitPreprocess /\ [][NextPreprocess]_vars

(***************************************************************************)
(* Properties of the fragment preprocessor.                                *)
(***************************************************************************)
HoldsNoKeyword ==
    \A k \in 1..Len(fragment_code) :
        fragment_code[k] \notin {"data", "controller", "target", "action", "value"}

\* C20: the preprocessor is idempotent, preprocess(preprocess(c)) =
\* preprocess(c), and a fragment that holds none of the keywords data,
\* controller, target, action, value is returned unchanged.
C20_PreprocessIdempotent ==
    /\ (pppc = "twice" => processed_twice = processed_once)
    /\ (pppc \in {"once", "twice"} /\ HoldsNoKeyword => processed_once = fragment_code)

\* data( do {: the block and both brackets were closed, and the second pass
\* added nothing
C20_Witness ==
    /\ pppc = "twice"
    /\ fragment_code = <<"data", "(", " ", "do", "{">>
    /\ processed_once = <<"data", "(", " ", "do", "{", "\n", "end", " ", "}", " ", ")">>
    /\ processed_twice = processed_once


(***************************************************************************)
(* The fragment extractor (extract_erb_blocks).  The template is a         *)
(* sequence of tokens: the delimiters "<%" and "%>", the sign "=", a       *)
(* blank, and "x" for any other text.  The two scans are evaluated as      *)
(* String#scan evaluates them: matches are taken from left to right and    *)
(* do not overlap, the lazy group ends before the first "%>" that follows. *)
(***************************************************************************)
MaxContentLen == 6

ContentTokens == {"<%", "%>", "=", " ", "x"}

\* the position of the first "%>" at or after from, 0 when there is none
first_close(text, from) ==
    IF \E k \in from..Len(text) : text[k] = "%>"
    THEN CHOOSE k \in from..Len(text) : text[k] = "%>" /\ \A h \in from..(k - 1) : text[h] # "%>"
    ELSE 0

\* the group (.*?) between the \s* of the two sides, then .strip
captured(text, from, close) == strip(SubSeq(text, from, close - 1))

\* @content.scan(/<%=\s*(.*?)\s*%>/m)
RECURSIVE scan_output(_, _)
scan_output(text, from) ==
    IF from > Len(text) THEN <<>>
    ELSE IF from < Len(text) /\ text[from] = "<%" /\ text[from + 1] = "="
            /\ first_close(text, from + 2) # 0
         THEN <<[type |-> "output",
                 code |-> captured(text, from + 2, first_close(text, from + 2)),
                 position |-> from]>>
              \o scan_output(text, first_close(text, from + 2) + 1)
         ELSE scan_output(text, from + 1)

\* next if match[0].strip.start_with?('=')
skips_output(code) == code # <<>> /\ code[1] = "="

\* @content.scan(/<%\s*(.*?)\s*%>/m)
RECURSIVE scan_execution(_, _)
scan_execution(text, from) ==
    IF from > Len(text) THEN <<>>
    ELSE IF text[from] = "<%" /\ first_close(text, from + 1) # 0
         THEN (IF skips_output(captured(text, from + 1, first_close(text, from + 1)))
               THEN <<>>
               ELSE <<[type |-> "execution",
                       code |-> captured(text, from + 1, first_close(text, from + 1)),
                       position |-> from]>>)
              \o scan_execution(text, first_close(text, from + 1) + 1)
         ELSE scan_execution(text, from + 1)

\* blocks.sort_by { |block| block[:position][0] }
RECURSIVE sort_by_position(_)
sort_by_position(bs) ==
    IF bs = <<>> THEN <<>>
    ELSE LET least == CHOOSE k \in 1..Len(bs) : \A h \in 1..Len(bs) : bs[k].position <= bs[h].position
         IN  <<bs[least]>>
             \o sort_by_position(SubSeq(bs, 1, least - 1) \o SubSeq(bs, least + 1, Len(bs)))

\* every "<%" of the template has its "%>" and no pair stands inside another
RECURSIVE WellFormedFrom(_, _, _)
WellFormedFrom(text, k, open) ==
    IF k > Len(text) THEN ~open
    ELSE CASE text[k] = "<%" -> ~open /\ WellFormedFrom(text, k + 1, TRUE)
           [] text[k] = "%>" -> open /\ WellFormedFrom(text, k + 1, FALSE)
           [] OTHER -> WellFormedFrom(text, k + 1, open)

InitExtract ==
    /\ ExtractOthersIdle
    /\ template_content \in {t \in SeqsUpTo(ContentTokens, MaxContentLen) : WellFormedFrom(t, 1, FALSE)}
    /\ extracted = <<>>
    /\ xpc = "output"

\* the first scan: the <%= %> blocks
ScanOutputBlocks ==
    /\ xpc = "output"
    /\ extracted' = scan_output(template_content, 1)
    /\ xpc' = "execution"
    /\ UNCHANGED template_content
    /\ ExtractOthers

\* the second scan and the sort: the list that goes to merge_block_pairs
ScanExecutionBlocks ==
    /\ xpc = "execution"
    /\ extracted' = sort_by_position(extracted \o scan_execution(template_content, 1))
    /\ xpc' = "sorted"
    /\ UNCHANGED template_content
    /\ ExtractOthers

NextExtract ==
    \/ ScanOutputBlocks
    \/ ScanExecutionBlocks

SpecExtract == InitExtract /\ [][NextExtract]_vars

(***************************************************************************)
(* Properties of the fragment extractor.                                   *)
(***************************************************************************)
\* the offsets of the delimiter pairs of the template
DelimiterPairs == {k \in 1..Len(template_content) : template_content[k] = "<%"}

\* the pair at offset k opens with the output sigil
OpensWithSigil(k) == k < Len(template_content) /\ template_content[k + 1] = "="

FragmentsAt(k) == {b \in 1..Len(extracted) : extracted[b].position = k}

\* C21: the extractor yields exactly one fragment for every delimiter pair
\* of the template, tagged output when the pair opens with the output sigil
\* and execution otherwise, and the offsets of the list go strictly up.
C21_OneFragmentPerPair ==
    xpc = "sorted" =>
        /\ \A k \in DelimiterPairs :
              /\ Cardinality(FragmentsAt(k)) = 1
              /\ \A b \in FragmentsAt(k) :
                    extracted[b].type = IF OpensWithSigil(k) THEN "output" ELSE "execution"
        /\ \A b \in 1..Len(extracted) : extracted[b].position \in DelimiterPairs
        /\ \A b \in 1..(Len(extracted) - 1) : extracted[b].position < extracted[b + 1].position


(***************************************************************************)
(* The habit model (Habit#check_in!, Habit#calculate_streak!) and the      *)
(* check_in endpoint.  Days are numbered 1..MaxDay; the numbers stand for  *)
(* consecutive calendar days around the end of a month and a year, so that *)
(* the date strings differ in the year, the month and the day.  A date     *)
(* string is the sequence of its characters.                               *)
(***************************************************************************)
MaxDay == 5

\* Date#to_s: day 1 is 2024-12-30, then 12-31, 2025-01-01, 01-02, ...
two_digits(n) ==
    LET digit(k) == CASE k = 0 -> "0" [] k = 1 -> "1" [] k = 2 -> "2" [] k = 3 -> "3"
                      [] k = 4 -> "4" [] k = 5 -> "5" [] k = 6 -> "6" [] k = 7 -> "7"
                      [] k = 8 -> "8" [] OTHER -> "9"
    IN  <<digit((n \div 10) % 10), digit(n % 10)>>

date_to_s(day) ==
    IF day <= 2
    THEN <<"2", "0", "2", "4", "-">> \o two_digits(12) \o <<"-">> \o two_digits(29 + day)
    ELSE <<"2", "0", "2", "5", "-">> \o two_digits(1) \o <<"-">> \o two_digits(day - 2)

char_rank(ch) ==
    CASE ch = "-" -> 0 [] ch = "0" -> 1 [] ch = "1" -> 2 [] ch = "2" -> 3 [] ch = "3" -> 4
      [] ch = "4" -> 5 [] ch = "5" -> 6 [] ch = "6" -> 7 [] ch = "7" -> 8 [] ch = "8" -> 9
      [] OTHER -> 10

\* String#<=>
RECURSIVE str_less(_, _)
str_less(a, b) ==
    IF b = <<>> THEN FALSE
    ELSE IF a = <<>> THEN TRUE
    ELSE IF Head(a) = Head(b) THEN str_less(Tail(a), Tail(b))
    ELSE char_rank(Head(a)) < char_rank(Head(b))

\* the selection of the least string, then of the least of the rest
RECURSIVE least_first(_)
least_first(arr) ==
    IF arr = <<>> THEN <<>>
    ELSE LET least == CHOOSE k \in 1..Len(arr) :
                          \A h \in 1..Len(arr) : ~str_less(arr[h], arr[k])
         IN  <<arr[least]>>
             \o least_first(SubSeq(arr, 1, least - 1) \o SubSeq(arr, least + 1, Len(arr)))

sort_strings_Unsorted(arr) == arr

\* Array#sort on strings
sort_strings(arr) == least_first(arr)

\* Date.parse(d)
date_parse(str) == CHOOSE day \in 1..(MaxDay + 1) : date_to_s(day) = str

\* completed_dates.sort.reverse.map { |d| Date.parse(d) }
sorted_dates(dates) ==
    LET s == sort_strings(dates)
    IN  [k \in 1..Len(s) |-> date_parse(s[Len(s) + 1 - k])]

already_listed_Never(dates, date_str) == FALSE

\* dates.include?(date_str)
already_listed(dates, date_str) == ArrInclude(dates, date_str)

consecutive_AnyGap(current, previous) == current > previous

\* (current - previous).to_i == 1
consecutive(current, previous) == current - previous = 1

\* streak = 1; sorted_dates.each_cons(2) { break unless ...; streak += 1 }
RECURSIVE count_streak(_, _)
count_streak(sorted, k) ==
    IF k >= Len(sorted) \/ ~consecutive(sorted[k], sorted[k + 1]) THEN 1
    ELSE 1 + count_streak(sorted, k + 1)

\* calculate_streak!: the new values of streak_count and longest_streak
calculate_streak(dates, now, longest) ==
    IF dates = <<>> THEN [streak_count |-> 0, longest_streak |-> longest]
    ELSE IF sorted_dates(dates)[1] \notin {now, now - 1}
         THEN [streak_count |-> 0, longest_streak |-> longest]
    ELSE LET streak == count_streak(sorted_dates(dates), 1)
         IN  [streak_count |-> streak,
              longest_streak |-> IF longest > streak THEN longest ELSE streak]

\* Habit.create!: set_defaults
InitHabit ==
    /\ HabitOthersIdle
    /\ completed_dates = <<>>
    /\ total_completions = 0
    /\ streak_count = 0
    /\ longest_streak = 0
    /\ today \in 1..MaxDay
    /\ request_date = 0
    /\ response_status = 0
    /\ hpc = "created"

\* POST check_in for a date that is listed: check_in! returns false
CheckInRejected ==
    /\ hpc = "created"
    /\ \E date \in 1..MaxDay :
          /\ already_listed(completed_dates, date_to_s(date))
          /\ request_date' = date
    /\ response_status' = 422
    /\ UNCHANGED <<completed_dates, total_completions, streak_count, longest_streak, today, hpc>>
    /\ HabitOthers

\* POST check_in for a date that is not listed: the date is added, the
\* attributes are recomputed and saved
CheckInAccepted ==
    /\ hpc = "created"
    /\ \E date \in 1..MaxDay :
          /\ ~already_listed(completed_dates, date_to_s(date))
          /\ request_date' = date
          /\ LET dates == Append(completed_dates, date_to_s(date))
                 streak == calculate_streak(sort_strings(dates), today, longest_streak)
             IN  /\ completed_dates' = sort_strings(dates)
                 /\ total_completions' = Len(dates)
                 /\ streak_count' = streak.streak_count
                 /\ longest_streak' = streak.longest_streak
    /\ response_status' = 200
    /\ UNCHANGED <<today, hpc>>
    /\ HabitOthers

\* midnight
DayPasses ==
    /\ hpc = "created"
    /\ today < MaxDay
    /\ today' = today + 1
    /\ request_date' = 0
    /\ UNCHANGED <<completed_dates, total_completions, streak_count, longest_streak,
                   response_status, hpc>>
    /\ HabitOthers

NextHabit ==
    \/ CheckInRejected
    \/ CheckInAccepted
    \/ DayPasses

SpecHabit == InitHabit /\ [][NextHabit]_vars

(***************************************************************************)
(* Properties of the habit model.                                          *)
(***************************************************************************)
\* the calendar day a date string of the list stands for
DayOf(date_str) ==
    CASE date_str = <<"2", "0", "2", "4", "-", "1", "2", "-", "3", "0">> -> 1
      [] date_str = <<"2", "0", "2", "4", "-", "1", "2", "-", "3", "1">> -> 2
      [] date_str = <<"2", "0", "2", "5", "-", "0", "1", "-", "0", "1">> -> 3
      [] date_str = <<"2", "0", "2", "5", "-", "0", "1", "-", "0", "2">> -> 4
      [] date_str = <<"2", "0", "2", "5", "-", "0", "1", "-", "0", "3">> -> 5
      [] date_str = <<"2", "0", "2", "5", "-", "0", "1", "-", "0", "4">> -> 6
      [] date_str = <<"2", "0", "2", "5", "-", "0", "1", "-", "0", "5">> -> 7
      [] OTHER -> 0

CompletedDays == {DayOf(completed_dates[k]) : k \in 1..Len(completed_dates)}

\* C22: a check-in for a date that is in completed_dates is answered with
\* 422 and leaves completed_dates, total_completions, streak_count and
\* longest_streak as they were.
C22_DuplicateCheckInRejected ==
    [][ \A date \in 1..MaxDay :
            (date \in CompletedDays /\ request_date' = date /\ today' = today) =>
                /\ response_status' = 422
                /\ completed_dates' = completed_dates
                /\ total_completions' = total_completions
                /\ streak_count' = streak_count
                /\ longest_streak' = longest_streak ]_vars

\* two check-ins for the same day, on the day after an earlier check-in
C22_Witness ==
    /\ response_status = 422
    /\ request_date = 3
    /\ today = 3
    /\ CompletedDays = {2, 3}
    /\ streak_count = 2

\* C23: completed_dates is sorted by calendar day and holds no date twice,
\* and total_completions is the number of its dates.
C23_DatesSortedAndCounted ==
    /\ \A k \in 1..(Len(completed_dates) - 1) :
          DayOf(completed_dates[k]) < DayOf(completed_dates[k + 1])
    /\ \A k \in 1..Len(completed_dates) : DayOf(completed_dates[k]) # 0
    /\ total_completions = Len(completed_dates)

\* the check-ins came in the order 2025-01-01, 2024-12-30, 2024-12-31
C23_Witness ==
    /\ Len(completed_dates) = 3
    /\ CompletedDays = {1, 2, 3}
    /\ request_date = 2
    /\ response_status = 200
    /\ longest_streak = 3

LatestDay == CHOOSE d \in CompletedDays : \A e \in CompletedDays : e <= d

\* the number of consecutive calendar days that end at the latest day
RunLength ==
    Cardinality({d \in CompletedDays : \A e \in d..LatestDay : e \in CompletedDays})

\* C24: after a successful check-in streak_count is the number of
\* consecutive days ending at the latest completed date when that date is
\* today or yesterday and 0 otherwise; longest_streak is never below
\* streak_count.
C24_StreakIsRunLength ==
    /\ (request_date # 0 /\ response_status = 200 =>
            streak_count = IF LatestDay \in {today, today - 1} THEN RunLength ELSE 0)
    /\ longest_streak >= streak_count

\* days 1, 2 and 4 are completed, the check-in for day 4 came on day 5: the
\* streak is 1 and the longest streak stays 2
C24_Witness ==
    /\ CompletedDays = {1, 2, 4}
    /\ today = 5
    /\ request_date = 4
    /\ response_status = 200
    /\ streak_count = 1
    /\ longest_streak = 2

(***************************************************************************)
(* Action strings (part_007, parse_action_string and the filter of         *)
(* find_actions_in_hash).  A string is a sequence of characters; the       *)
(* strings examined are up to MaxTokens texts joined by single blanks,     *)
(* the empty text giving leading, doubled and trailing blanks.             *)
(***************************************************************************)
MaxTokens == 3

\* the characters \w matches, among those the texts use
WordChars == {"c", "d", "e", "k", "m", "o"}

TokenTexts ==
    { <<>>,
      <<"c", "#", "m">>,
      <<"d", "#", "m">>,
      <<"e", "-", ">", "c", "#", "m">>,
      <<"e", ".", "k", "-", ">", "c", "-", "d", "#", "m">>,
      <<"c", "#", "m", "@", "o">>,
      <<"c", "#">>,
      <<"e", "-", ">", "c">>,
      <<"c", "#", "m", "@">>,
      <<"c", "-", "#", "m">>,
      <<"e", ".", "-", ">", "c", "#", "m">>,
      <<"-", ">", "c", "#", "m">> }

RECURSIVE JoinTexts(_)
JoinTexts(texts) ==
    IF texts = <<>> THEN <<>>
    ELSE IF Len(texts) = 1 THEN texts[1]
    ELSE texts[1] \o <<" ">> \o JoinTexts(Tail(texts))

\* action_string.scan(/\S+/): the maximal runs of non-blank characters
\* from position p on, run being the run read so far
RECURSIVE scan_non_space(_, _, _)
scan_non_space(str, p, run) ==
    IF p > Len(str) THEN (IF run = <<>> THEN <<>> ELSE <<run>>)
    ELSE IF str[p] = " "
         THEN (IF run = <<>> THEN <<>> ELSE <<run>>) \o scan_non_space(str, p + 1, <<>>)
    ELSE scan_non_space(str, p + 1, Append(run, str[p]))

\* \w+ at position p: the position after the longest run of word
\* characters, p itself when there is none
RECURSIVE after_word(_, _)
after_word(tok, p) ==
    IF p <= Len(tok) /\ tok[p] \in WordChars THEN after_word(tok, p + 1) ELSE p

\* (?:sep\w+)* at position p
RECURSIVE after_more_words(_, _, _)
after_more_words(tok, p, sep) ==
    IF p <= Len(tok) /\ tok[p] = sep /\ after_word(tok, p + 1) > p + 1
    THEN after_more_words(tok, after_word(tok, p + 1), sep)
    ELSE p

\* \w+(?:sep\w+)* at position p: the position after the match, 0 when
\* there is no match
after_words(tok, p, sep) ==
    IF after_word(tok, p) = p THEN 0 ELSE after_more_words(tok, after_word(tok, p), sep)

\* (\w+(?:-\w+)*)#(\w+)(?:@\w+)?$ at position p
match_from_controller(tok, p, event) ==
    LET c == after_words(tok, p, "-")
        m == IF c > 0 /\ c <= Len(tok) /\ tok[c] = "#" THEN after_word(tok, c + 1) ELSE 0
        e == IF m = 0 \/ m = c + 1 THEN 0
             ELSE IF m > Len(tok) THEN m
             ELSE IF tok[m] = "@" /\ after_word(tok, m + 1) > m + 1
                  THEN after_word(tok, m + 1)
             ELSE 0
    IN  IF e = Len(tok) + 1
        THEN << [action |-> tok, event |-> event,
                 controller |-> SubSeq(tok, p, c - 1),
                 method |-> SubSeq(tok, c + 1, m - 1)] >>
        ELSE <<>>

\* action.match(/^(?:(\w+(?:\.\w+)*)->)?(\w+(?:-\w+)*)#(\w+)(?:@\w+)?$/):
\* the entry of a token that fits, none otherwise; the event is nil
\* when the token has no event part
action_match_EventRequired(tok) ==
    LET ev == after_words(tok, 1, ".")
    IN  IF ev > 0 /\ ev + 1 <= Len(tok) /\ tok[ev] = "-" /\ tok[ev + 1] = ">"
        THEN match_from_controller(tok, ev + 2, SubSeq(tok, 1, ev - 1))
        ELSE <<>>

action_match(tok) ==
    LET ev == after_words(tok, 1, ".")
        with_event ==
            IF ev > 0 /\ ev + 1 <= Len(tok) /\ tok[ev] = "-" /\ tok[ev + 1] = ">"
            THEN match_from_controller(tok, ev + 2, SubSeq(tok, 1, ev - 1))
            ELSE <<>>
    IN  IF with_event # <<>> THEN with_event ELSE match_from_controller(tok, 1, Nil)

\* action_parts.each { |action| actions << {...} if the token fits }
RECURSIVE parse_action_parts(_)
parse_action_parts(parts) ==
    IF parts = <<>> THEN <<>>
    ELSE action_match(Head(parts)) \o parse_action_parts(Tail(parts))

parse_action_string(str) ==
    IF str = Nil THEN <<>> ELSE parse_action_parts(scan_non_space(str, 1, <<>>))

\* find_actions_in_hash, for the value of one data-action pair:
\*   if controller_name.nil? || action[:controller] == controller_name
actions_for_controller(str, controller) ==
    SelectSeq(parse_action_string(str),
              LAMBDA act : controller = Nil \/ act.controller = controller)

InitParse ==
    /\ ParseOthersIdle
    /\ action_string \in {JoinTexts(ts) : ts \in SeqsUpTo(TokenTexts, MaxTokens)}
    /\ wanted_controller \in {Nil, <<"c">>}
    /\ action_matches = <<>>
    /\ parse_pc = "given"

\* a query for the actions of any controller
FindActionsOfAny ==
    /\ parse_pc = "given"
    /\ wanted_controller = Nil
    /\ action_matches' = actions_for_controller(action_string, Nil)
    /\ parse_pc' = "done"
    /\ UNCHANGED <<action_string, wanted_controller>>
    /\ ParseOthers

\* a query for the actions of one controller
FindActionsOfController ==
    /\ parse_pc = "given"
    /\ wanted_controller # Nil
    /\ action_matches' = actions_for_controller(action_string, wanted_controller)
    /\ parse_pc' = "done"
    /\ UNCHANGED <<action_string, wanted_controller>>
    /\ ParseOthers

NextParse == FindActionsOfAny \/ FindActionsOfController

SpecParse == InitParse /\ [][NextParse]_vars

\* the tokens of the string: the pairs of positions that bound a maximal
\* run of non-blank characters
TokenRuns ==
    { r \in (1..Len(action_string)) \X (1..Len(action_string)) :
        /\ r[1] <= r[2]
        /\ \A p \in r[1]..r[2] : action_string[p] # " "
        /\ r[1] = 1 \/ action_string[r[1] - 1] = " "
        /\ r[2] = Len(action_string) \/ action_string[r[2] + 1] = " " }

TokenAt(r) == SubSeq(action_string, r[1], r[2])

IsWord(s) == s # <<>> /\ \A p \in 1..Len(s) : s[p] \in WordChars

\* words joined by the separator
IsWords(s, sep) ==
    /\ s # <<>>
    /\ \A p \in 1..Len(s) : s[p] \in WordChars \cup {sep}
    /\ s[1] # sep /\ s[Len(s)] # sep
    /\ \A p \in 1..(Len(s) - 1) : ~(s[p] = sep /\ s[p + 1] = sep)

\* the ways a token reads as [event->]controller#method[@option]: a is
\* the position of the arrow (0 without event), h of the hash sign, o of
\* the at sign (the end without option)
ReadingsOf(tok) ==
    { [action |-> tok,
       event |-> IF t[1] = 0 THEN Nil ELSE SubSeq(tok, 1, t[1] - 1),
       controller |-> SubSeq(tok, IF t[1] = 0 THEN 1 ELSE t[1] + 2, t[2] - 1),
       method |-> SubSeq(tok, t[2] + 1, t[3] - 1)] :
      t \in { u \in ({0} \cup {p \in 1..(Len(tok) - 1) : tok[p] = "-" /\ tok[p + 1] = ">"})
                    \X {p \in 1..Len(tok) : tok[p] = "#"}
                    \X ({Len(tok) + 1} \cup {p \in 1..Len(tok) : tok[p] = "@"}) :
                /\ u[1] < u[2] /\ u[2] < u[3]
                /\ u[1] = 0 \/ IsWords(SubSeq(tok, 1, u[1] - 1), ".")
                /\ IsWords(SubSeq(tok, IF u[1] = 0 THEN 1 ELSE u[1] + 2, u[2] - 1), "-")
                /\ IsWord(SubSeq(tok, u[2] + 1, u[3] - 1))
                /\ u[3] = Len(tok) + 1 \/ IsWord(SubSeq(tok, u[3] + 1, Len(tok))) } }

\* the tokens that fit and pass the controller filter
ReportedRuns ==
    { r \in TokenRuns :
        \E rd \in ReadingsOf(TokenAt(r)) :
            wanted_controller = Nil \/ rd.controller = wanted_controller }

RunNumber(r) == 1 + Cardinality({s \in ReportedRuns : s[1] < r[1]})

\* C26: the matches of an action string are one entry per token that
\* reads as [event->]controller#method[@option] (and, with a controller
\* filter, names that controller), in token order; the other tokens are
\* dropped
C26_OneEntryPerFittingToken ==
    parse_pc = "done" =>
        /\ Len(action_matches) = Cardinality(ReportedRuns)
        /\ \A r \in ReportedRuns : action_matches[RunNumber(r)] \in ReadingsOf(TokenAt(r))

\* C26 witness: a fitting token of another controller, a token that does
\* not fit and a fitting token with an event were examined with
\* a filter
C26_Witness ==
    /\ parse_pc = "done"
    /\ wanted_controller = <<"c">>
    /\ action_string = <<"d", "#", "m", " ", "c", "#", " ", "e", "-", ">", "c", "#", "m">>
    /\ Len(action_matches) = 1
    /\ action_matches[1].event = <<"e">>

(***************************************************************************)
(* The query walks over a syntax tree (part_007, find_targets_in_ast,      *)
(* find_actions_in_ast, find_values_in_ast and their helpers).  A node     *)
(* has a type, its children and, for a literal, its text; a child that is  *)
(* not a node (the name of a call, an absent receiver) is NotANode.  The   *)
(* queries are for controller c, target p and value v.                     *)
(***************************************************************************)
MaxPairs == 2

NotANode == [type |-> "none", children |-> <<>>, lit |-> ""]

AstStr(text) == [type |-> "str", children |-> <<>>, lit |-> text]

AstSym(text) == [type |-> "sym", children |-> <<>>, lit |-> text]

AstPair(key_node, value_node) == [type |-> "pair", children |-> <<key_node, value_node>>, lit |-> ""]

AstHash(pairs) == [type |-> "hash", children |-> pairs, lit |-> ""]

\* children[0] is the receiver, children[1] the name, children[2..-1]
\* the arguments
AstSend(receiver, name, args) ==
    [type |-> "send", children |-> <<receiver, NotANode>> \o args, lit |-> name]

\* the characters of the string literals the trees hold
CharsOf(text) ==
    CASE text = "c#m c#m" -> <<"c", "#", "m", " ", "c", "#", "m">>
      [] text = "p" -> <<"p">>
      [] OTHER -> <<>>

\* find_targets_in_hash, for one pair: a string key "c-target" or a
\* symbol key c_target / c-target, with the string value p
target_matches_of_pair(key_node, value_node) ==
    (IF key_node.type = "str" /\ value_node.type = "str"
        /\ key_node.lit = "c-target" /\ value_node.lit = "p"
     THEN <<[type |-> "hash_string_key", key_node |-> key_node, value_node |-> value_node]>>
     ELSE <<>>)
    \o
    (IF key_node.type = "sym" /\ value_node.type = "str"
        /\ key_node.lit \in {"c_target", "c-target"} /\ value_node.lit = "p"
     THEN <<[type |-> "hash_symbol_key", key_node |-> key_node, value_node |-> value_node]>>
     ELSE <<>>)

\* find_actions_in_hash, for one pair: a key "action" or :action with a
\* string value, one match per parsed action of the controller
action_matches_of_pair(key_node, value_node) ==
    IF key_node.type \in {"str", "sym"} /\ key_node.lit = "action" /\ value_node.type = "str"
    THEN [n \in 1..Len(actions_for_controller(CharsOf(value_node.lit), <<"c">>)) |->
            [type |-> "hash_action", key_node |-> key_node, value_node |-> value_node]]
    ELSE <<>>

\* find_values_in_hash, for one pair: a string key "c-v-value" or a
\* symbol key c_v_value / c-v-value, whatever the value
value_matches_of_pair(key_node, value_node) ==
    (IF key_node.type = "str" /\ key_node.lit = "c-v-value"
     THEN <<[type |-> "hash_string_key", key_node |-> key_node, value_node |-> value_node]>>
     ELSE <<>>)
    \o
    (IF key_node.type = "sym" /\ key_node.lit \in {"c_v_value", "c-v-value"}
     THEN <<[type |-> "hash_symbol_key", key_node |-> key_node, value_node |-> value_node]>>
     ELSE <<>>)

\* hash_node.children.each do |pair_node| next unless pair_node.type == :pair
RECURSIVE find_in_pairs(_, _)
find_in_pairs(pair_nodes, kind) ==
    IF pair_nodes = <<>> THEN <<>>
    ELSE (IF Head(pair_nodes).type # "pair" THEN <<>>
          ELSE CASE kind = "targets" ->
                      target_matches_of_pair(Head(pair_nodes).children[1], Head(pair_nodes).children[2])
                 [] kind = "actions" ->
                      action_matches_of_pair(Head(pair_nodes).children[1], Head(pair_nodes).children[2])
                 [] kind = "values" ->
                      value_matches_of_pair(Head(pair_nodes).children[1], Head(pair_nodes).children[2]))
         \o find_in_pairs(Tail(pair_nodes), kind)

find_in_hash(hash_node, kind) == find_in_pairs(hash_node.children, kind)

\* send_node.children[2..-1].each do |arg|
\*   next unless arg.is_a?(Parser::AST::Node) && arg.type == :hash
\*   matches.concat(find_..._in_hash(arg, ...))
RECURSIVE find_in_args(_, _)
find_in_args(args, kind) ==
    IF args = <<>> THEN <<>>
    ELSE (IF Head(args).type = "hash" THEN find_in_hash(Head(args), kind) ELSE <<>>)
         \o find_in_args(Tail(args), kind)

find_in_method_call(send_node, kind) ==
    IF Len(send_node.children) >= 2
    THEN find_in_args(SubSeq(send_node.children, 3, Len(send_node.children)), kind)
    ELSE <<>>

\* case node.type when :hash ... when :send ... end, then the same walk
\* over every child that is a node
RECURSIVE find_in_ast(_, _), find_in_children(_, _)
find_in_ast(node, kind) ==
    (CASE node.type = "hash" -> find_in_hash(node, kind)
       [] node.type = "send" -> find_in_method_call(node, kind)
       [] OTHER -> <<>>)
    \o find_in_children(node.children, kind)

find_in_children(children, kind) ==
    IF children = <<>> THEN <<>>
    ELSE (IF Head(children).type = "none" THEN <<>> ELSE find_in_ast(Head(children), kind))
         \o find_in_children(Tail(children), kind)

find_targets_in_ast(node) == find_in_ast(node, "targets")

find_actions_in_ast(node) == find_in_ast(node, "actions")

find_values_in_ast(node) == find_in_ast(node, "values")

\* the pairs a data hash may hold
LeafPairs ==
    { AstPair(k, v) :
        k \in {AstSym("action"), AstStr("c-target"), AstSym("c_v_value"), AstSym("class")},
        v \in {AstStr("c#m c#m"), AstStr("p")} }

DataHashes == { AstHash(pairs) : pairs \in SeqsUpTo(LeafPairs, MaxPairs) }

\* the places a hash may stand at: alone, nested in another hash, passed
\* as an argument of a call, nested in a hash that is passed as an
\* argument, as the receiver of a call, as an argument of an inner call
TreesAround(h) ==
    { h,
      AstHash(<<AstPair(AstSym("data"), h)>>),
      AstSend(NotANode, "tag", <<h>>),
      AstSend(NotANode, "link_to", <<AstStr("x"), AstHash(<<AstPair(AstSym("data"), h)>>)>>),
      AstSend(h, "merge", <<>>),
      AstSend(NotANode, "concat", <<AstSend(NotANode, "tag", <<h>>)>>) }

InitWalk ==
    /\ WalkOthersIdle
    /\ ast \in UNION { TreesAround(h) : h \in DataHashes }
    /\ walk_kind \in {"targets", "actions", "values"}
    /\ walk_matches = <<>>
    /\ walk_pc = "parsed"

WalkForTargets ==
    /\ walk_pc = "parsed"
    /\ walk_kind = "targets"
    /\ walk_matches' = find_targets_in_ast(ast)
    /\ walk_pc' = "done"
    /\ UNCHANGED <<ast, walk_kind>>
    /\ WalkOthers

WalkForActions ==
    /\ walk_pc = "parsed"
    /\ walk_kind = "actions"
    /\ walk_matches' = find_actions_in_ast(ast)
    /\ walk_pc' = "done"
    /\ UNCHANGED <<ast, walk_kind>>
    /\ WalkOthers

WalkForValues ==
    /\ walk_pc = "parsed"
    /\ walk_kind = "values"
    /\ walk_matches' = find_values_in_ast(ast)
    /\ walk_pc' = "done"
    /\ UNCHANGED <<ast, walk_kind>>
    /\ WalkOthers

NextWalk == WalkForTargets \/ WalkForActions \/ WalkForValues

SpecWalk == InitWalk /\ [][NextWalk]_vars

\* what one pair is to be reported as: once when it declares the target
\* or the value, once per fitting token when it declares actions
ReportsDue(pair_node, kind) ==
    LET k == pair_node.children[1]
        v == pair_node.children[2]
    IN  CASE kind = "targets" ->
                IF k.lit \in {"c-target", "c_target"} /\ v.type = "str" /\ v.lit = "p" THEN 1 ELSE 0
          [] kind = "actions" ->
                IF k.lit = "action" /\ v.type = "str" /\ v.lit = "c#m c#m" THEN 2 ELSE 0
          [] kind = "values" ->
                IF k.lit \in {"c-v-value", "c_v_value"} THEN 1 ELSE 0

\* the reports due for all the pairs of a tree
RECURSIVE ReportsDueIn(_, _), ReportsDueAmong(_, _)
ReportsDueIn(node, kind) ==
    (IF node.type = "pair" THEN ReportsDue(node, kind) ELSE 0)
        + ReportsDueAmong(node.children, kind)

ReportsDueAmong(nodes, kind) ==
    IF nodes = <<>> THEN 0
    ELSE ReportsDueIn(Head(nodes), kind) + ReportsDueAmong(Tail(nodes), kind)

\* C27: a walk reports every matching pair of the tree exactly once (an
\* action pair once per fitting token), wherever the pair's hash stands
C27_EachPairReportedOnce ==
    walk_pc = "done" => Len(walk_matches) = ReportsDueIn(ast, walk_kind)

(***************************************************************************)
(* Line numbers of fragment-declared actions (part_007, initialize,        *)
(* merge_block_pairs, find_stimulus_actions, calculate_line_number).  The  *)
(* view file is a sequence of items, a newline "nl" or the code of a       *)
(* fragment; the position of a fragment is the number of items before it,  *)
(* which has the newlines of the text before its offset.  The token        *)
(* "action" is a data hash with an action pair, which the walk reports     *)
(* once.  The files examined close every block they open, so that every    *)
(* fragment parses.                                                        *)
(***************************************************************************)
MaxItems == 5

TemplateItems ==
    { <<"nl">>,
      <<"x">>,                \* @title
      <<"x", "do">>,          \* form_with(model: @habit) do |f|
      <<"x", "action">>,      \* f.submit data: { action: "c#m" }
      <<"end">> }             \* end

\* the raw fragments of the file, in the order of their positions
RECURSIVE raw_blocks_from(_, _)
raw_blocks_from(items, p) ==
    IF p > Len(items) THEN <<>>
    ELSE (IF items[p] = <<"nl">> THEN <<>> ELSE <<RawBlock(items[p], p - 1)>>)
         \o raw_blocks_from(items, p + 1)

\* while j < blocks.length && nesting_level > 0: the code joined and the
\* index the scan stops at
RECURSIVE scan_forward(_, _, _, _)
scan_forward(raw, at, level, code) ==
    IF at <= Len(raw) /\ level > 0
    THEN scan_forward(raw, at + 1, AdjustNesting(level, raw[at].code), JoinCode(code, raw[at].code))
    ELSE [code |-> code, stop |-> at]

\* blocks.each_with_index from index at on; the consumed indices are the
\* ones between an opener and the index its scan stops at
RECURSIVE merge_from(_, _)
merge_from(raw, at) ==
    IF at > Len(raw) THEN <<>>
    ELSE IF has_unmatched_do(raw[at].code)
         THEN LET scan == scan_forward(raw, at + 1, 1, raw[at].code)
              IN  << [type     |-> raw[at].type,
                      code     |-> scan.code,
                      position |-> raw[at].position,
                      merged   |-> TRUE] >> \o merge_from(raw, scan.stop)
    ELSE <<raw[at]>> \o merge_from(raw, at + 1)

merge_block_pairs(raw) == merge_from(raw, 1)

\* @content[0...position].count("\n") + 1
calculate_line_number(items, position) ==
    1 + Cardinality({p \in 1..position : items[p] = <<"nl">>})

\* find_stimulus_actions: for every block, one result per match of the
\* walk over its code, with line_number: calculate_line_number(block[:position][0])
RECURSIVE action_results_from(_, _, _)
action_results_from(items, erb, b) ==
    IF b > Len(erb) THEN <<>>
    ELSE [n \in 1..CountIn(erb[b].code, "action") |->
            [block |-> b, line_number |-> calculate_line_number(items, erb[b].position)]]
         \o action_results_from(items, erb, b + 1)

\* every do of the file is closed by a later end and no end is left over
RECURSIVE ClosesItsBlocks(_, _)
ClosesItsBlocks(items, open) ==
    IF items = <<>> THEN open = 0
    ELSE LET now == open + CountIn(Head(items), "do") - CountIn(Head(items), "end")
         IN  now >= 0 /\ ClosesItsBlocks(Tail(items), now)

InitLine ==
    /\ LineOthersIdle
    /\ template_items \in {t \in SeqsUpTo(TemplateItems, MaxItems) : ClosesItsBlocks(t, 0)}
    /\ line_blocks = <<>>
    /\ line_results = <<>>
    /\ lpc = "loaded"

\* ErbAstParser.new(content): extract_erb_blocks ends with merge_block_pairs
ExtractErbBlocks ==
    /\ lpc = "loaded"
    /\ line_blocks' = merge_block_pairs(raw_blocks_from(template_items, 1))
    /\ lpc' = "extracted"
    /\ UNCHANGED <<template_items, line_results>>
    /\ LineOthers

FindActionsWithLines ==
    /\ lpc = "extracted"
    /\ line_results' = action_results_from(template_items, line_blocks, 1)
    /\ lpc' = "queried"
    /\ UNCHANGED <<template_items, line_blocks>>
    /\ LineOthers

NextLine == ExtractErbBlocks \/ FindActionsWithLines

SpecLine == InitLine /\ [][NextLine]_vars

\* the lines of the raw fragments that hold an action, in file order: the
\* newlines before the fragment plus one
RECURSIVE DeclaringLines(_, _, _)
DeclaringLines(items, p, line) ==
    IF p > Len(items) THEN <<>>
    ELSE IF items[p] = <<"nl">> THEN DeclaringLines(items, p + 1, line + 1)
    ELSE (IF \E t \in 1..Len(items[p]) : items[p][t] = "action" THEN <<line>> ELSE <<>>)
         \o DeclaringLines(items, p + 1, line)

\* C28: the line numbers attached to the fragment-declared actions are
\* the lines of the raw fragments that hold them, also for a raw fragment
\* folded into a merged fragment that starts on an earlier line
C28_ActionLineIsRawFragmentLine ==
    lpc = "queried" =>
        [k \in 1..Len(line_results) |-> line_results[k].line_number]
            = DeclaringLines(template_items, 1, 1)

(***************************************************************************)
(* ErrorHandler (part_004, lines 277-549).  A record is its message, its   *)
(* stack and its count; the id, the timestamp and the context of a record  *)
(* play no part in what follows.  The cap of the list, 50 in the source,   *)
(* is scaled to maxErrors, and the infos reported hold more distinct       *)
(* pairs of message and stack than the cap.  JavaScript runs a callback to *)
(* completion: report, clear, subscribe and unsubscribe are called from    *)
(* outside a notification only while no notification callback runs, and    *)
(* from inside a listener while one does.                                  *)
(***************************************************************************)
maxErrors == 2

MaxCount == 2

MaxMicrotasks == 2

Messages == {"boom", "fail", "Try restarting Metro"}

Stacks == {"at f", "undefined"}

Infos == { [message |-> m, stack |-> s] : m \in Messages, s \in Stacks }

ListenerIds == {"bar", "panel"}

\* this.ignoredErrorPatterns.some(pattern => pattern.test(message))
shouldIgnoreError(message) == message = "Try restarting Metro"

\* this.errors.find(e => e.message === info.message && e.stack === info.stack):
\* the index of the first such record, 0 when there is none
existing_index_MessageOnly(errs, info) ==
    IF \E p \in 1..Len(errs) : errs[p].message = info.message
    THEN CHOOSE p \in 1..Len(errs) :
            /\ errs[p].message = info.message
            /\ \A r \in 1..(p - 1) : errs[r].message # info.message
    ELSE 0

existing_index(errs, info) ==
    IF \E p \in 1..Len(errs) : errs[p].message = info.message /\ errs[p].stack = info.stack
    THEN CHOOSE p \in 1..Len(errs) :
            /\ errs[p].message = info.message /\ errs[p].stack = info.stack
            /\ \A r \in 1..(p - 1) :
                  ~(errs[r].message = info.message /\ errs[r].stack = info.stack)
    ELSE 0

\* handleError up to its call of notifyListeners: the list it leaves and
\* whether it goes on to notify
handleError(errs, info) ==
    IF shouldIgnoreError(info.message) THEN [errors |-> errs, notifies |-> FALSE]
    ELSE IF existing_index(errs, info) # 0
         THEN [errors |-> [errs EXCEPT ![existing_index(errs, info)].count = @ + 1],
               notifies |-> TRUE]
    ELSE LET unshifted == <<[message |-> info.message, stack |-> info.stack, count |-> 1]>> \o errs
         IN  [errors |-> IF Len(unshifted) > maxErrors
                         THEN SubSeq(unshifted, 1, maxErrors)
                         ELSE unshifted,
              notifies |-> TRUE]

\* notifyListeners: if (this.isNotifying) return; queueMicrotask(...)
notifyListeners(notifying, queued) == IF notifying THEN queued ELSE queued + 1

\* the counters of the model stay within their bounds
WithinBounds(errs, info) ==
    existing_index(errs, info) # 0 => errs[existing_index(errs, info)].count < MaxCount

subscribed == {listeners[p] : p \in 1..Len(listeners)}

InitErrors ==
    /\ HandlerOthersIdle
    /\ errors = <<>>
    /\ listeners = <<>>
    /\ isNotifying = FALSE
    /\ microtasks = 0
    /\ visit = 0
    /\ in_listener = FALSE
    /\ last_info = <<>>
    /\ unnotified = {}
    /\ epc = "created"

\* report, or one of the patched handlers, calls handleError from outside
\* a notification
Report ==
    /\ epc = "created" /\ ~isNotifying
    /\ \E info \in Infos :
          /\ WithinBounds(errors, info)
          /\ last_info' = info
          /\ errors' = handleError(errors, info).errors
          /\ microtasks' = IF handleError(errors, info).notifies
                           THEN notifyListeners(isNotifying, microtasks)
                           ELSE microtasks
          /\ unnotified' = IF handleError(errors, info).notifies THEN subscribed ELSE unnotified
    /\ microtasks' <= MaxMicrotasks
    /\ UNCHANGED <<listeners, isNotifying, visit, in_listener, epc>>
    /\ HandlerOthers

\* clear() from outside a notification
Clear ==
    /\ epc = "created" /\ ~isNotifying
    /\ microtasks < MaxMicrotasks
    /\ errors' = <<>>
    /\ microtasks' = notifyListeners(isNotifying, microtasks)
    /\ unnotified' = subscribed
    /\ UNCHANGED <<listeners, isNotifying, visit, in_listener, last_info, epc>>
    /\ HandlerOthers

\* subscribe(listener): this.listeners.add(listener)
Subscribe ==
    /\ epc = "created" /\ ~isNotifying
    /\ \E l \in ListenerIds \ subscribed : listeners' = Append(listeners, l)
    /\ UNCHANGED <<errors, isNotifying, microtasks, visit, in_listener, last_info, unnotified, epc>>
    /\ HandlerOthers

\* the function subscribe returned: this.listeners.delete(listener)
Unsubscribe ==
    /\ epc = "created" /\ ~isNotifying
    /\ \E l \in subscribed :
          /\ listeners' = SelectSeq(listeners, LAMBDA x : x # l)
          /\ unnotified' = unnotified \ {l}
    /\ UNCHANGED <<errors, isNotifying, microtasks, visit, in_listener, last_info, epc>>
    /\ HandlerOthers

\* a queued callback starts: this.isNotifying = true; this.listeners.forEach
StartNotification ==
    /\ epc = "created" /\ ~isNotifying
    /\ microtasks > 0
    /\ microtasks' = microtasks - 1
    /\ isNotifying' = TRUE
    /\ visit' = 1
    /\ UNCHANGED <<errors, listeners, in_listener, last_info, unnotified, epc>>
    /\ HandlerOthers

\* listener([...this.errors]): the listener is called with a copy of the
\* list as it is now
ListenerCalled ==
    /\ isNotifying /\ visit <= Len(listeners) /\ ~in_listener
    /\ in_listener' = TRUE
    /\ unnotified' = unnotified \ {listeners[visit]}
    /\ UNCHANGED <<errors, listeners, isNotifying, microtasks, visit, last_info, epc>>
    /\ HandlerOthers

\* the listener returns, or throws and is caught
ListenerReturns ==
    /\ isNotifying /\ in_listener
    /\ in_listener' = FALSE
    /\ visit' = visit + 1
    /\ UNCHANGED <<errors, listeners, isNotifying, microtasks, last_info, unnotified, epc>>
    /\ HandlerOthers

\* the listener causes an error report before it returns (console.error
\* is patched to call handleError)
ListenerReports ==
    /\ isNotifying /\ in_listener
    /\ \E info \in Infos :
          /\ WithinBounds(errors, info)
          /\ last_info' = info
          /\ errors' = handleError(errors, info).errors
          /\ microtasks' = IF handleError(errors, info).notifies
                           THEN notifyListeners(isNotifying, microtasks)
                           ELSE microtasks
          /\ unnotified' = IF handleError(errors, info).notifies THEN subscribed ELSE unnotified
    /\ in_listener' = FALSE
    /\ visit' = visit + 1
    /\ UNCHANGED <<listeners, isNotifying, epc>>
    /\ HandlerOthers

\* the listener calls clear() before it returns
ListenerClears ==
    /\ isNotifying /\ in_listener
    /\ errors' = <<>>
    /\ microtasks' = notifyListeners(isNotifying, microtasks)
    /\ unnotified' = subscribed
    /\ in_listener' = FALSE
    /\ visit' = visit + 1
    /\ UNCHANGED <<listeners, isNotifying, last_info, epc>>
    /\ HandlerOthers

\* the forEach is over: finally { this.isNotifying = false }
EndNotification ==
    /\ isNotifying /\ visit > Len(listeners)
    /\ isNotifying' = FALSE
    /\ visit' = 0
    /\ UNCHANGED <<errors, listeners, microtasks, in_listener, last_info, unnotified, epc>>
    /\ HandlerOthers

\* the handler while no component has subscribed
NextErrors == Report \/ Clear \/ StartNotification \/ EndNotification

SpecErrors == InitErrors /\ [][NextErrors]_vars

\* the handler with its subscribers
CallListener == ListenerCalled \/ ListenerReturns \/ ListenerReports \/ ListenerClears

NextNotify ==
    \/ Report
    \/ Clear
    \/ Subscribe
    \/ Unsubscribe
    \/ StartNotification
    \/ ListenerCalled
    \/ ListenerReturns
    \/ ListenerReports
    \/ ListenerClears
    \/ EndNotification

SpecNotify == InitErrors /\ [][NextNotify]_vars

\* the microtask queue is drained and a callback that runs runs to its
\* end: a queued callback starts, calls the listeners and returns
SpecNotifyLive ==
    /\ SpecNotify
    /\ WF_vars(StartNotification)
    /\ WF_vars(CallListener)
    /\ WF_vars(EndNotification)

KeyOf(rec) == <<rec.message, rec.stack>>

KeysOf(errs) == [p \in 1..Len(errs) |-> KeyOf(errs[p])]

Stored(errs, info) == \E p \in 1..Len(errs) : KeyOf(errs[p]) = <<info.message, info.stack>>

IsIgnored(info) == info.message \in {"Try restarting Metro"}

\* what the list is after a report of info
AfterReport(before, after, info) ==
    IF IsIgnored(info) THEN after = before
    ELSE IF Stored(before, info)
         THEN /\ KeysOf(after) = KeysOf(before)
              /\ \A p \in 1..Len(before) :
                    after[p].count = before[p].count
                        + (IF KeyOf(before[p]) = <<info.message, info.stack>> THEN 1 ELSE 0)
    ELSE /\ KeyOf(after[1]) = <<info.message, info.stack>> /\ after[1].count = 1
         /\ Len(after) = (IF Len(before) < maxErrors THEN Len(before) + 1 ELSE maxErrors)
         /\ \A p \in 2..Len(after) : after[p] = before[p - 1]

\* C29: the list never holds more than maxErrors records nor two records
\* with the same message and stack; a report of a stored error adds one
\* to its count and keeps the length and the order, a report of a new
\* error puts it at the front, a report of an ignored message changes
\* nothing
C29_ListBoundedAndDistinct ==
    /\ [](Len(errors) <= maxErrors)
    /\ [](\A p, r \in 1..Len(errors) : KeyOf(errors[p]) = KeyOf(errors[r]) => p = r)
    /\ [][Report \/ ListenerReports => AfterReport(errors, errors', last_info')]_vars

\* C29 witness: the list is full and its oldest record was reported a
\* second time after a newer error was recorded
C29_Witness ==
    /\ Len(errors) = maxErrors
    /\ errors[1].count = 1
    /\ errors[maxErrors].count = 2
    /\ last_info = [message |-> errors[maxErrors].message, stack |-> errors[maxErrors].stack]
    /\ \E p \in 1..maxErrors : errors[p].message = "fail" /\ errors[p].stack = "undefined"

\* C30: every change of the list is followed, sooner or later, by a call
\* of every listener that stays subscribed, made after the change
C30_EveryChangeNotified ==
    \A l \in ListenerIds : (l \in unnotified) ~> (l \notin unnotified)

====
